---- MODULE Spec2Model ----
(***************************************************************************)
(* Tunnel lifecycle of the VPN backend: the relational tables (servers,    *)
(* vpn_configs, ip_allocations), ServerManager's create / destroy of a     *)
(* tunnel with validation, and the wg-easy route path with its in-memory   *)
(* index of user -> panel client.                                          *)
(***************************************************************************)
EXTENDS Integers, Sequences, FiniteSets, TLC

\* ------------------------------------------------------------------ bounds
\* Largest number of host bits of a server's subnet (a /24 has 8, a /29 has 3);
\* the server of a behaviour has a subnet of 2 .. SubnetBits host bits.
SubnetBits == 3
\* Number of ServerManager calls (create or destroy) started in one behaviour.
MaxCalls == 2
\* Number of clients the wg-easy panel creates in one behaviour.
MaxClients == 2

\* Number of loop threads one monitor can have at a time.
MaxLoopThreads == 2
MaxServers == 2
MaxText == 1

\* Request threads of ServerManager callers, each with its own DB session.
Threads == {1, 2}
Users == {1, 2}
ServerIds == {1}
\* Coordinator processes, each with its own DynamicTunnelManager.
Procs == {1, 2}

\* ------------------------------------------------------- program constants
\* verify_peer_added / verify_peer_removed: max_attempts
max_attempts == 3
\* settings.VPN_SUBNET = "10.8.0.0/24": number of host bits
VPN_SUBNET == 8
\* WgEasyClient(id="unknown", ..., address="", public_key="") of create_client;
\* the panel's own ids, addresses and keys are the numbers from 1 on.
UnknownId == 0
EmptyStr == 0
\* Server.port == 51820 of create_server_from_panel, 'port': 51820 of the panel info
WireGuardPort == 51820

\* Python's None, and a present optional value.
None == <<>>
Some(v) == <<v>>
Val(o) == o[1]

VARIABLES
    servers,         \* table servers: id -> row
    vpn_configs,     \* table vpn_configs: sequence of rows, id = position
    ip_allocations,  \* table ip_allocations: sequence of rows, id = position
    wg_peers,        \* public keys on the local interface (wg show wg0 peers)
    panel_peers,     \* public keys registered through panel_manager
    next_key,        \* number of key pairs generated so far
    calls,           \* number of ServerManager calls started so far
    th,              \* per thread: position, arguments, locals and return value
                     \*   of its ServerManager call
    results,         \* return values a sequential caller of create has collected
    active_tunnels,  \* per process: DynamicTunnelManager.active_tunnels
    panel_clients,   \* ids of the clients the wg-easy panel holds
    next_client,     \* number of clients the panel has created so far
    response,        \* response of the route handler that ran last
    panel_call,      \* the WgEasyManager call observed last: its requests' answers,
                     \*   its re-authentication and what it returned
    now,             \* datetime.utcnow(), in seconds since the start
    sweep,           \* the last cleanup_disconnected_peers: when it ran, the rows
                     \*   it chose and those still to be passed to _cleanup_peer
    users,           \* table users: id -> row
    loops,           \* the two monitors: monitoring_active, monitor_thread and
                     \*   the threads running their loops
    wg_call,         \* the last call of a function of utils/wireguard.py or
                     \*   of a parser of the peer dump: its arguments and what
                     \*   it returned
    admin,           \* the requests to routes/servers.py in flight, each with
                     \*   its own DB session, and the last value of servers.id
    usage_logs,      \* table usage_logs, in insertion order
    main_tunnels     \* active_tunnels of the DynamicTunnelManager that the
                     \*   lifespan of main.py builds, per process

vars == <<servers, vpn_configs, ip_allocations, wg_peers, panel_peers, next_key,
          calls, th, results, active_tunnels, panel_clients, next_client, response,
          panel_call, now, sweep, users, loops, wg_call, admin, usage_logs,
          main_tunnels>>

auxVars == <<users, loops, wg_call, admin, usage_logs, main_tunnels>>

dbVars == <<servers, vpn_configs, ip_allocations>>

\* State of the wg-easy route path and of the sequential caller.
routeVars == <<active_tunnels, panel_clients, next_client, response>>

\* State of the ServerManager path.
managerVars == <<servers, ip_allocations, wg_peers, panel_peers, next_key, calls, th>>

\* --------------------------------------------------------------- IP pool
RECURSIVE Pow2(_)
Pow2(n) == IF n = 0 THEN 1 ELSE 2 * Pow2(n - 1)

\* list(ipaddress.ip_network(subnet).hosts()), as offsets from the network
\* address, in the order hosts() yields them.
Hosts(bits) ==
    IF bits = 0 THEN <<0>>
    ELSE IF bits = 1 THEN <<0, 1>>
    ELSE [i \in 1 .. (Pow2(bits) - 2) |-> i]

\* network.network_address + 1
Gateway == 0 + 1

NewIPAllocation(server_id, ip) ==
    [server_id |-> server_id, ip_address |-> ip,
     is_allocated |-> FALSE, allocated_to |-> None]

\* populate_ip_pool without its test for the gateway address.
populate_ip_pool_all_hosts(rows, server_id, bits) ==
    rows \o [i \in DOMAIN Hosts(bits) |-> NewIPAllocation(server_id, Hosts(bits)[i])]

\* populate_ip_pool: one free row per host address except the gateway.
populate_ip_pool(rows, server_id, bits) ==
    LET NotGateway(ip) == ip # Gateway
        addrs == SelectSeq(Hosts(bits), NotGateway)
    IN  rows \o [i \in DOMAIN addrs |-> NewIPAllocation(server_id, addrs[i])]

\* ------------------------------------------------------------------ Init
Ret(ok, msg, cfg) == [ok |-> ok, msg |-> msg, vpn_config |-> cfg]

IdleThread ==
    [pc |-> "idle", op |-> "none", server_id |-> 0, user_id |-> 0, public_key |-> 0,
     available_ip |-> None, vpn_config |-> None, success |-> FALSE, attempt |-> 0,
     ret |-> Ret(FALSE, "none", None)]

\* What a route handler answers: the status, the message, and the fields of
\* "data" the handlers fill in.
Resp(op, user_id, status, message, has_tunnel, count) ==
    [op |-> op, user_id |-> user_id, status |-> status, message |-> message,
     has_tunnel |-> has_tunnel, count |-> count]

NoResponse == Resp("none", 0, "none", "none", FALSE, 0)

\* What is observed of one WgEasyManager call: the operation, the handler's
\* process and user (0 for a call made outside the tunnel manager), the HTTP
\* status of each request of the operation in order, whether it authenticated
\* again after a 401 ("none", "ok", "failed"), and the returned success flag
\* and message.
PanelCall(op, proc, user_id, answers, reauth, ok, msg) ==
    [op |-> op, proc |-> proc, user_id |-> user_id, answers |-> answers,
     reauth |-> reauth, ok |-> ok, msg |-> msg]

NoCall == PanelCall("none", 0, 0, <<>>, "none", FALSE, "none")

\* User(...): is_active takes the column default True.
NewUser == [is_active |-> TRUE]

\* Neither monitor has been started.
NoLoops ==
    [m \in {"connection", "server"} |->
        [monitoring_active |-> FALSE,
         threads |-> [k \in 1 .. MaxLoopThreads |->
                        [pc |-> "none", cycle_count |-> 0, iterations |-> 0,
                         since_sweep |-> 0, swept |-> FALSE]]]]

\* No function of utils/wireguard.py has been called.
NoWgCall == [fn |-> "none"]

\* No request to routes/servers.py is in flight; the one server row has id 1.
IdleRequest == [pc |-> "idle", op |-> "none", server_id |-> 0,
                endpoint |-> "", port |-> 0, subnet |-> None]

NoRequests == [id_seq |-> 1, req |-> [r \in {1, 2} |-> IdleRequest]]

\* No cleanup has run yet.
NoSweep == [chosen |-> {}, pending |-> {}]

Init ==
    /\ \E panel_url \in {None, Some("panel")}, bits \in 2 .. SubnetBits :
         /\ servers = [s \in ServerIds |->
                         [endpoint |-> "vpn1.example", port |-> WireGuardPort,
                          panel_url |-> panel_url, subnet |-> bits, is_active |-> TRUE]]
         /\ ip_allocations = populate_ip_pool(<<>>, 1, bits)
    /\ vpn_configs = <<>>
    /\ wg_peers = {}
    /\ panel_peers = {}
    /\ next_key = 0
    /\ calls = 0
    /\ th = [t \in Threads |-> IdleThread]
    /\ results = <<>>
    /\ active_tunnels = [p \in Procs |-> [u \in Users |-> None]]
    /\ panel_clients = {}
    /\ next_client = 0
    /\ response = NoResponse
    /\ panel_call = NoCall
    /\ now = 0
    /\ sweep = NoSweep
    /\ users = [u \in Users |-> NewUser]
    /\ loops = NoLoops
    /\ wg_call = NoWgCall
    /\ admin = NoRequests
    /\ usage_logs = <<>>
    /\ main_tunnels = [p \in Procs |-> [u \in Users |-> None]]

\* ------------------------------------------------------ ServerManager
HasPanel(server_id) == servers[server_id].panel_url # None

\* The query without its is_allocated filter.
FreeAllocationsAnyRow(rows, server_id) ==
    {i \in DOMAIN rows : rows[i].server_id = server_id}

\* db.query(IPAllocation).filter(server_id == server.id, is_allocated == False)
FreeAllocations(rows, server_id) ==
    {i \in DOMAIN rows : rows[i].server_id = server_id /\ rows[i].is_allocated = FALSE}

\* .first() of a query without ORDER BY: any matching row.  The rows of a pool
\* that no call has selected and no tunnel has held differ in nothing but their
\* address, so the lowest of them stands for all of them.
Touched(a) ==
    \/ \E t \in Threads : th[t].available_ip = Some(a)
    \/ \E c \in DOMAIN vpn_configs :
          /\ vpn_configs[c].server_id = ip_allocations[a].server_id
          /\ vpn_configs[c].allocated_ip = ip_allocations[a].ip_address

First(matching) ==
    LET fresh == {a \in matching : ~Touched(a)} IN
    {a \in matching : Touched(a) \/ \A b \in fresh : a <= b}

\* The probe's verdict aborting the call whatever the server.
HealthAbortsAnyServer(is_healthy, server_id) == ~is_healthy

\* "if not is_healthy": only a server without panel_url aborts the call.
HealthAborts(is_healthy, server_id) == ~is_healthy /\ ~HasPanel(server_id)

\* The create call going on whatever the add-peer call reported.
PeerAddIgnored(success) == FALSE

\* "if not success: return False, ..." after the add-peer call.
PeerAddFailed(success) == ~success

\* vpn_config.id as read right after db.add(vpn_config): the row is pending,
\* no flush has assigned its primary key yet.
PendingId == None

\* The allocation left as it was found.
MarkNothing(row) == row

\* available_ip.is_allocated = True; available_ip.allocated_to = vpn_config.id
MarkAllocated(row) == [row EXCEPT !.is_allocated = TRUE, !.allocated_to = PendingId]

\* ip_allocation.is_allocated = False; ip_allocation.allocated_to = None
ReleaseAllocation(row) == [row EXCEPT !.is_allocated = FALSE, !.allocated_to = None]

\* VPNConfig(user_id=..., server_id=..., public_key=..., allocated_ip=...),
\* is_active taking the column default True and created_at the column default
\* datetime.utcnow.
NewVPNConfig(user_id, server_id, public_key, ip) ==
    [user_id |-> user_id, server_id |-> server_id, public_key |-> public_key,
     allocated_ip |-> ip, is_active |-> TRUE, created_at |-> now]

\* db.query(IPAllocation).filter(IPAllocation.allocated_to == vpn_config.id)
AllocationsOf(rows, cfg_id) ==
    {i \in DOMAIN rows : rows[i].allocated_to = Some(cfg_id)}

\* The call returns (ok, msg, cfg); its locals go out of scope.
Return(thr, ok, msg, cfg) ==
    [thr EXCEPT !.pc = "done", !.available_ip = None, !.vpn_config = None,
                !.success = FALSE, !.attempt = 0, !.ret = Ret(ok, msg, cfg)]

\* A caller invokes create_tunnel_with_validation(db, server, user_id, keys).
CreateTunnelCall(t, s, u) ==
    /\ th[t].pc \in {"idle", "done"}
    /\ calls' = calls + 1
    /\ next_key' = next_key + 1
    /\ th' = [th EXCEPT ![t] = [IdleThread EXCEPT
                 !.pc = "c_validate", !.op = "create", !.server_id = s,
                 !.user_id = u, !.public_key = next_key + 1]]
    /\ UNCHANGED <<dbVars, wg_peers, panel_peers, results, routeVars, panel_call, now, sweep, auxVars>>

\* Health probe, then the query for a free address.
CreateValidate(t) ==
    /\ th[t].pc = "c_validate"
    /\ \E is_healthy \in BOOLEAN :
         IF HealthAborts(is_healthy, th[t].server_id)
         THEN th' = [th EXCEPT ![t] = Return(@, FALSE, "unhealthy", None)]
         ELSE LET free == FreeAllocations(ip_allocations, th[t].server_id) IN
              IF free = {}
              THEN th' = [th EXCEPT ![t] = Return(@, FALSE, "no_ip", None)]
              ELSE \E a \in First(free) :
                     th' = [th EXCEPT ![t].pc = "c_add_peer",
                                      ![t].available_ip = Some(a)]
    /\ UNCHANGED <<dbVars, wg_peers, panel_peers, next_key, calls, results, routeVars, panel_call, now, sweep, auxVars>>

\* panel_manager.add_peer_to_panel or add_peer_to_server; both may report
\* success without having registered the peer ("simulated").
CreateAddPeer(t) ==
    /\ th[t].pc = "c_add_peer"
    /\ \E outcome \in {"added", "simulated", "failed"} :
         LET success == outcome # "failed" IN
         /\ IF outcome = "added"
            THEN IF HasPanel(th[t].server_id)
                 THEN /\ panel_peers' = panel_peers \cup {th[t].public_key}
                      /\ UNCHANGED wg_peers
                 ELSE /\ wg_peers' = wg_peers \cup {th[t].public_key}
                      /\ UNCHANGED panel_peers
            ELSE UNCHANGED <<wg_peers, panel_peers>>
         /\ IF PeerAddFailed(success)
            THEN th' = [th EXCEPT ![t] = Return(@, FALSE, "peer_failed", None)]
            ELSE th' = [th EXCEPT ![t].pc = "c_commit", ![t].success = success]
    /\ UNCHANGED <<dbVars, next_key, calls, results, routeVars, panel_call, now, sweep, auxVars>>

\* db.add(vpn_config); mark the allocation; db.commit(); db.refresh(vpn_config).
\* A server with panel_url skips the verification and returns.
CreateCommit(t) ==
    /\ th[t].pc = "c_commit"
    /\ \E db_ok \in BOOLEAN :
         IF db_ok
         THEN LET a == Val(th[t].available_ip)
                  id == Len(vpn_configs) + 1 IN
              /\ vpn_configs' = Append(vpn_configs,
                     NewVPNConfig(th[t].user_id, th[t].server_id,
                                  th[t].public_key, ip_allocations[a].ip_address))
              /\ ip_allocations' =
                     [ip_allocations EXCEPT ![a] = MarkAllocated(@)]
              /\ IF HasPanel(th[t].server_id)
                 THEN th' = [th EXCEPT ![t] = Return(@, TRUE, "created", Some(id))]
                 ELSE th' = [th EXCEPT ![t].pc = "c_verify",
                                       ![t].vpn_config = Some(id)]
         ELSE /\ th' = [th EXCEPT ![t] = Return(@, FALSE, "error", None)]
              /\ UNCHANGED <<vpn_configs, ip_allocations>>
    /\ UNCHANGED <<servers, wg_peers, panel_peers, next_key, calls, results, routeVars, panel_call, now, sweep, auxVars>>

\* One pass of the loop of verify_peer_added; after the last failed pass
\* create runs db.rollback(), which finds nothing pending after the commit.
CreateVerify(t) ==
    /\ th[t].pc = "c_verify"
    /\ \E cmd_ok \in BOOLEAN :
         IF cmd_ok /\ th[t].public_key \in wg_peers
         THEN th' = [th EXCEPT ![t] = Return(@, TRUE, "created", th[t].vpn_config)]
         ELSE IF th[t].attempt + 1 >= max_attempts
         THEN th' = [th EXCEPT ![t] = Return(@, FALSE, "verify_failed", None)]
         ELSE th' = [th EXCEPT ![t].attempt = @ + 1]
    /\ UNCHANGED <<dbVars, wg_peers, panel_peers, next_key, calls, results, routeVars, panel_call, now, sweep, auxVars>>

\* A caller invokes destroy_tunnel_with_validation(db, vpn_config).
DestroyTunnelCall(t, c) ==
    /\ th[t].pc \in {"idle", "done"}
    /\ calls' = calls + 1
    /\ c \in DOMAIN vpn_configs
    /\ th' = [th EXCEPT ![t] = [IdleThread EXCEPT
                 !.pc = "d_remove_peer", !.op = "destroy",
                 !.server_id = vpn_configs[c].server_id,
                 !.user_id = vpn_configs[c].user_id,
                 !.public_key = vpn_configs[c].public_key,
                 !.vpn_config = Some(c)]]
    /\ UNCHANGED <<dbVars, wg_peers, panel_peers, next_key, results, routeVars, panel_call, now, sweep, auxVars>>

\* panel_manager.remove_peer_from_panel or remove_peer_from_server.
DestroyRemovePeer(t) ==
    /\ th[t].pc = "d_remove_peer"
    /\ \E outcome \in {"removed", "simulated", "failed"} :
         LET success == outcome # "failed" IN
         /\ IF outcome = "removed"
            THEN IF HasPanel(th[t].server_id)
                 THEN /\ panel_peers' = panel_peers \ {th[t].public_key}
                      /\ UNCHANGED wg_peers
                 ELSE /\ wg_peers' = wg_peers \ {th[t].public_key}
                      /\ UNCHANGED panel_peers
            ELSE UNCHANGED <<wg_peers, panel_peers>>
         /\ IF success
            THEN th' = [th EXCEPT ![t].pc = "d_commit", ![t].success = success]
            ELSE th' = [th EXCEPT ![t] = Return(@, FALSE, "remove_failed", None)]
    /\ UNCHANGED <<dbVars, next_key, calls, results, routeVars, panel_call, now, sweep, auxVars>>

\* vpn_config.is_active = False; release the allocation found; db.commit().
\* A server with panel_url skips the verification and returns.
DestroyCommit(t) ==
    /\ th[t].pc = "d_commit"
    /\ \E db_ok \in BOOLEAN :
         IF db_ok
         THEN LET c == Val(th[t].vpn_config)
                  found == AllocationsOf(ip_allocations, c) IN
              /\ vpn_configs' = [vpn_configs EXCEPT ![c].is_active = FALSE]
              /\ IF found = {}
                 THEN UNCHANGED ip_allocations
                 ELSE \E a \in First(found) :
                        ip_allocations' =
                            [ip_allocations EXCEPT ![a] = ReleaseAllocation(@)]
              /\ IF HasPanel(th[t].server_id)
                 THEN th' = [th EXCEPT ![t] = Return(@, TRUE, "destroyed", th[t].vpn_config)]
                 ELSE th' = [th EXCEPT ![t].pc = "d_verify"]
         ELSE /\ th' = [th EXCEPT ![t] = Return(@, FALSE, "error", None)]
              /\ UNCHANGED <<vpn_configs, ip_allocations>>
    /\ UNCHANGED <<servers, wg_peers, panel_peers, next_key, calls, results, routeVars, panel_call, now, sweep, auxVars>>

\* One pass of the loop of verify_peer_removed; its verdict is only logged.
DestroyVerify(t) ==
    /\ th[t].pc = "d_verify"
    /\ \E cmd_ok \in BOOLEAN :
         IF (cmd_ok /\ th[t].public_key \notin wg_peers)
            \/ th[t].attempt + 1 >= max_attempts
         THEN th' = [th EXCEPT ![t] = Return(@, TRUE, "destroyed", th[t].vpn_config)]
         ELSE th' = [th EXCEPT ![t].attempt = @ + 1]
    /\ UNCHANGED <<dbVars, wg_peers, panel_peers, next_key, calls, results, routeVars, panel_call, now, sweep, auxVars>>

\* A deletion that does not look for tunnels.
NoConfigsOfServer(rows, server_id) == {}

\* db.query(VPNConfig).filter(server_id == server_id, is_active == True)
ActiveConfigsOfServer(rows, server_id) ==
    {c \in DOMAIN rows : rows[c].server_id = server_id /\ rows[c].is_active}

\* DELETE /servers/{server_id}: refused while the server has active VPNConfig
\* rows, a soft delete (is_active = False) otherwise.
delete_server(s) ==
    /\ s \in DOMAIN servers
    /\ LET active_configs == Cardinality(ActiveConfigsOfServer(vpn_configs, s)) IN
       IF active_configs > 0 THEN UNCHANGED servers
       ELSE servers' = [servers EXCEPT ![s].is_active = FALSE]
    /\ UNCHANGED <<vpn_configs, ip_allocations, wg_peers, panel_peers, next_key, calls,
                   th, results, routeVars, panel_call, now, sweep, auxVars>>

Next ==
    \/ \E t \in Threads, s \in ServerIds, u \in Users :
          calls < MaxCalls /\ CreateTunnelCall(t, s, u)
    \/ \E t \in Threads : CreateValidate(t)
    \/ \E t \in Threads : CreateAddPeer(t)
    \/ \E t \in Threads : CreateCommit(t)
    \/ \E t \in Threads : CreateVerify(t)
    \/ \E t \in Threads, c \in 1 .. MaxCalls :
          calls < MaxCalls /\ DestroyTunnelCall(t, c)
    \/ \E t \in Threads : DestroyRemovePeer(t)
    \/ \E t \in Threads : DestroyCommit(t)
    \/ \E t \in Threads : DestroyVerify(t)
    \/ \E s \in ServerIds : delete_server(s)

Spec == Init /\ [][Next]_vars

\* ------------------------------------------------- a sequential caller
\* Number of IPAllocation rows of a server.
PoolSize(server_id) ==
    Cardinality({a \in DOMAIN ip_allocations : ip_allocations[a].server_id = server_id})

\* One caller creates tunnels on server 1 one after the other, each for a user
\* of its own, for as long as every call so far has succeeded and at most once
\* more than the pool has addresses.
SeqCreate ==
    /\ Len(results) = calls
    /\ \A i \in DOMAIN results : results[i].ok
    /\ calls <= PoolSize(1)
    /\ CreateTunnelCall(1, 1, calls + 1)

\* The caller takes the return value of the call it made.
SeqReturn ==
    /\ th[1].pc = "done"
    /\ Len(results) < calls
    /\ results' = Append(results, th[1].ret)
    /\ UNCHANGED <<dbVars, wg_peers, panel_peers, next_key, calls, th, routeVars, panel_call, now, sweep, auxVars>>

NextSeq ==
    \/ SeqCreate
    \/ CreateValidate(1)
    \/ CreateAddPeer(1)
    \/ CreateCommit(1)
    \/ CreateVerify(1)
    \/ SeqReturn

SpecSeq == Init /\ [][NextSeq]_vars

\* ------------------------------------------------- wg-easy route path
\* A client as the panel lists it: its id, address and public key are its own.
PanelClient(cid) == [id |-> cid, address |-> cid, public_key |-> cid]

\* create_client's fallback WgEasyClient when the new client is not in the list.
UnknownClient == [id |-> UnknownId, address |-> EmptyStr, public_key |-> EmptyStr]

\* A status read that trusts the index alone and never asks the panel.
get_user_tunnel_status_index_only(index, clients, user_id, list_ok) ==
    IF index[user_id] = None
    THEN [has_tunnel |-> FALSE, index |-> index, msg |-> "No active tunnel"]
    ELSE [has_tunnel |-> TRUE, index |-> index, msg |-> "Tunnel is active"]

\* DynamicTunnelManager.get_user_tunnel_status: the index of the process, the
\* panel's clients and whether list_clients succeeds give the verdict and the
\* index afterward.
get_user_tunnel_status(index, clients, user_id, list_ok) ==
    IF index[user_id] = None
    THEN [has_tunnel |-> FALSE, index |-> index, msg |-> "No active tunnel"]
    ELSE IF ~list_ok
    THEN [has_tunnel |-> FALSE, index |-> index, msg |-> "Error checking tunnel status"]
    ELSE IF Val(index[user_id]) \notin clients
    THEN [has_tunnel |-> FALSE, index |-> [index EXCEPT ![user_id] = None],
          msg |-> "Tunnel was removed externally"]
    ELSE [has_tunnel |-> TRUE, index |-> index, msg |-> "Tunnel is active"]

\* DynamicTunnelManager.create_user_tunnel.  created: outcome of
\* WgEasyManager.create_client ("found": the new client is read back from the
\* list; "unknown": created, not read back; "reauth": created after a 401, no
\* client object returned, so client.id raises; "failed": nothing created).
create_user_tunnel(index, clients, last, user_id, list_ok, created, config_ok, delete_ok) ==
    IF index[user_id] # None /\ list_ok /\ Val(index[user_id]) \in clients
    THEN [ok |-> FALSE, index |-> index, clients |-> clients, last |-> last,
          client |-> None, msg |-> "User already has an active tunnel"]
    ELSE LET index1 == [index EXCEPT ![user_id] = None]
             new == last + 1
             clients1 == clients \cup {new}
         IN  IF created = "failed"
             THEN [ok |-> FALSE, index |-> index1, clients |-> clients, last |-> last,
                   client |-> None, msg |-> "Client creation failed"]
             ELSE IF created = "reauth"
             THEN [ok |-> FALSE, index |-> index1, clients |-> clients1, last |-> new,
                   client |-> None, msg |-> "Error creating tunnel"]
             ELSE LET client == IF created = "found" THEN PanelClient(new)
                                ELSE UnknownClient IN
                  IF ~(config_ok /\ client.id \in clients1)
                  THEN [ok |-> FALSE, index |-> index1,
                        clients |-> IF delete_ok THEN clients1 \ {client.id} ELSE clients1,
                        last |-> new, client |-> None,
                        msg |-> "Failed to get configuration"]
                  ELSE [ok |-> TRUE,
                        index |-> [index1 EXCEPT ![user_id] = Some(client.id)],
                        clients |-> clients1, last |-> new, client |-> Some(client),
                        msg |-> "Tunnel created successfully"]

\* What a WgEasyManager operation returns, with what it did on the way.
Outcome(ok, msg, answers, reauth) ==
    [ok |-> ok, msg |-> msg, answers |-> answers, reauth |-> reauth]

\* The statuses the panel can give a request about client_id (0: a request
\* about no client): success only for a client it holds, 404 only for one it
\* does not hold, 401 and 500 at any time.
PanelAnswers(success_code, client_id, clients) ==
    {401, 500} \cup (IF client_id = 0 \/ client_id \in clients
                     THEN {success_code} ELSE {404})

\* WgEasyManager.delete_client.  authenticated: self.authenticated on entry;
\* auth_ok, reauth_ok: what _authenticate returns on entry and after a 401;
\* first, retry: the status of the DELETE and of its repetition.
delete_client(authenticated, auth_ok, first, reauth_ok, retry) ==
    IF ~authenticated /\ ~auth_ok
    THEN Outcome(FALSE, "Authentication failed", <<>>, "none")
    ELSE IF first = 200
    THEN Outcome(TRUE, "Client deleted successfully", <<first>>, "none")
    ELSE IF first = 404
    THEN Outcome(FALSE, "Client not found", <<first>>, "none")
    ELSE IF first = 401
    THEN IF ~reauth_ok
         THEN Outcome(FALSE, "Authentication failed", <<first>>, "failed")
         ELSE IF retry = 200
         THEN Outcome(TRUE, "Client deleted successfully after re-auth",
                      <<first, retry>>, "ok")
         ELSE Outcome(FALSE, "Authentication failed", <<first, retry>>, "ok")
    ELSE Outcome(FALSE, "Failed to delete client", <<first>>, "none")

\* WgEasyManager.get_client_config and get_client_qr_code (the same code but
\* for the URL and the messages).
get_client_config(authenticated, auth_ok, first, reauth_ok, retry) ==
    IF ~authenticated /\ ~auth_ok
    THEN Outcome(FALSE, "Authentication failed", <<>>, "none")
    ELSE IF first = 200
    THEN Outcome(TRUE, "Configuration retrieved successfully", <<first>>, "none")
    ELSE IF first = 404
    THEN Outcome(FALSE, "Client not found", <<first>>, "none")
    ELSE IF first = 401
    THEN IF ~reauth_ok
         THEN Outcome(FALSE, "Authentication failed", <<first>>, "failed")
         ELSE IF retry = 200
         THEN Outcome(TRUE, "Configuration retrieved after re-auth",
                      <<first, retry>>, "ok")
         ELSE Outcome(FALSE, "Authentication failed", <<first, retry>>, "ok")
    ELSE Outcome(FALSE, "Failed to get config", <<first>>, "none")

\* WgEasyManager.list_clients, and the POST of create_client, which has the
\* same branches.
list_clients(authenticated, auth_ok, first, reauth_ok, retry) ==
    IF ~authenticated /\ ~auth_ok
    THEN Outcome(FALSE, "Authentication failed", <<>>, "none")
    ELSE IF first = 200
    THEN Outcome(TRUE, "Found clients", <<first>>, "none")
    ELSE IF first = 401
    THEN IF ~reauth_ok
         THEN Outcome(FALSE, "Re-authentication failed", <<first>>, "failed")
         ELSE IF retry = 200
         THEN Outcome(TRUE, "Found clients after re-auth", <<first, retry>>, "ok")
         ELSE Outcome(FALSE, "Re-authentication failed", <<first, retry>>, "ok")
    ELSE Outcome(FALSE, "Failed to list clients", <<first>>, "none")

\* WgEasyManager.enable_client and disable_client: 204 is success, 404 is
\* "Client not found", every other status, 401 included, is a failure.
enable_client(authenticated, auth_ok, first, reauth_ok, retry) ==
    IF ~authenticated /\ ~auth_ok
    THEN Outcome(FALSE, "Authentication failed", <<>>, "none")
    ELSE IF first = 204
    THEN Outcome(TRUE, "Client enabled successfully", <<first>>, "none")
    ELSE IF first = 404
    THEN Outcome(FALSE, "Client not found", <<first>>, "none")
    ELSE Outcome(FALSE, "Failed to enable client", <<first>>, "none")

\* WgEasyManager.get_server_info: a 401 clears self.authenticated and fails.
get_server_info(authenticated, auth_ok, first, reauth_ok, retry) ==
    IF ~authenticated /\ ~auth_ok
    THEN Outcome(FALSE, "Authentication failed", <<>>, "none")
    ELSE IF first = 200
    THEN Outcome(TRUE, "Server info retrieved successfully", <<first>>, "none")
    ELSE IF first = 401
    THEN Outcome(FALSE, "Authentication failed", <<first>>, "none")
    ELSE Outcome(FALSE, "Failed to get server info", <<first>>, "none")

\* The operations of WgEasyManager, and the one named op applied to its inputs.
PanelOps ==
    {"list_clients", "create_client", "delete_client", "get_client_config",
     "get_client_qr_code", "enable_client", "disable_client", "get_server_info"}

SuccessCode(op) == IF op \in {"enable_client", "disable_client"} THEN 204 ELSE 200

PanelOperation(op, authenticated, auth_ok, first, reauth_ok, retry) ==
    IF op = "delete_client"
    THEN delete_client(authenticated, auth_ok, first, reauth_ok, retry)
    ELSE IF op \in {"get_client_config", "get_client_qr_code"}
    THEN get_client_config(authenticated, auth_ok, first, reauth_ok, retry)
    ELSE IF op \in {"list_clients", "create_client"}
    THEN list_clients(authenticated, auth_ok, first, reauth_ok, retry)
    ELSE IF op \in {"enable_client", "disable_client"}
    THEN enable_client(authenticated, auth_ok, first, reauth_ok, retry)
    ELSE get_server_info(authenticated, auth_ok, first, reauth_ok, retry)

\* The delete_client results the panel can produce for client_id.
DeleteResults(client_id, clients) ==
    {delete_client(authenticated, auth_ok, first, reauth_ok, retry) :
        authenticated \in BOOLEAN, auth_ok \in BOOLEAN,
        first \in PanelAnswers(200, client_id, clients), reauth_ok \in BOOLEAN,
        retry \in PanelAnswers(200, client_id, clients)}

\* DynamicTunnelManager.destroy_user_tunnel; deleted: what delete_client
\* returned (used only when the user has an index entry).
destroy_user_tunnel(index, clients, user_id, deleted) ==
    IF index[user_id] = None
    THEN [ok |-> FALSE, index |-> index, clients |-> clients,
          msg |-> "No active tunnel found for user"]
    ELSE LET client_id == Val(index[user_id]) IN
         IF deleted.ok
         THEN [ok |-> TRUE, index |-> [index EXCEPT ![user_id] = None],
               clients |-> clients \ {client_id}, msg |-> "Tunnel destroyed successfully"]
         ELSE IF deleted.msg = "Client not found"
         THEN [ok |-> TRUE, index |-> [index EXCEPT ![user_id] = None],
               clients |-> clients, msg |-> "Tunnel was already removed"]
         ELSE [ok |-> FALSE, index |-> index, clients |-> clients,
               msg |-> deleted.msg]

\* The users whose index entry names a client the panel no longer lists.
StaleUsers(index, clients) ==
    {u \in Users : index[u] # None /\ Val(index[u]) \notin clients}

\* db.query(VPNConfig).filter(user_id == current_user.id, is_active == True)
ActiveConfigsOfUser(rows, user_id) ==
    {c \in DOMAIN rows : rows[c].user_id = user_id /\ rows[c].is_active}

\* POST /tunnel/create
create_dynamic_tunnel(p, u) ==
    \E list_ok \in BOOLEAN :
      LET st == get_user_tunnel_status(active_tunnels[p], panel_clients, u, list_ok) IN
      IF st.has_tunnel
      THEN /\ response' = Resp("create", u, "success", "Active tunnel already exists", TRUE, 0)
           /\ active_tunnels' = [active_tunnels EXCEPT ![p] = st.index]
           /\ UNCHANGED <<vpn_configs, panel_clients, next_client>>
      ELSE \E created \in {"found", "unknown", "reauth", "failed"},
              list_ok2 \in IF st.index[u] = None THEN {TRUE} ELSE BOOLEAN :
           \E config_ok \in IF created = "found" THEN BOOLEAN ELSE {FALSE} :
           \E delete_ok \in IF created = "found" /\ ~config_ok THEN BOOLEAN ELSE {TRUE} :
           \E db_ok \in IF created = "found" /\ config_ok THEN BOOLEAN ELSE {TRUE} :
             LET r == create_user_tunnel(st.index, panel_clients, next_client, u,
                                         list_ok2, created, config_ok, delete_ok) IN
             /\ r.last <= MaxClients
             /\ active_tunnels' = [active_tunnels EXCEPT ![p] = r.index]
             /\ panel_clients' = r.clients
             /\ next_client' = r.last
             /\ IF ~r.ok
                THEN /\ response' = Resp("create", u, "error", r.msg, FALSE, 0)
                     /\ UNCHANGED vpn_configs
                ELSE /\ response' = Resp("create", u, "success",
                                         "Dynamic VPN tunnel created successfully", TRUE, 0)
                     /\ IF db_ok
                        THEN vpn_configs' = Append(vpn_configs,
                                 NewVPNConfig(u, 1, Val(r.client).public_key,
                                              Val(r.client).address))
                        ELSE UNCHANGED vpn_configs

CreateDynamicTunnel(p, u) ==
    /\ create_dynamic_tunnel(p, u)
    /\ UNCHANGED <<managerVars, results, panel_call, now, sweep, auxVars>>

\* DELETE /tunnel/destroy, given what delete_client returns and whether the
\* database commit succeeds.
destroy_dynamic_tunnel(p, u, deleted, db_ok) ==
    LET r == destroy_user_tunnel(active_tunnels[p], panel_clients, u, deleted)
        rows == ActiveConfigsOfUser(vpn_configs, u) IN
    /\ active_tunnels' = [active_tunnels EXCEPT ![p] = r.index]
    /\ panel_clients' = r.clients
    /\ IF ~r.ok /\ r.msg # "No active tunnel found for user"
       THEN /\ response' = Resp("destroy", u, "error", r.msg, FALSE, 0)
            /\ UNCHANGED vpn_configs
       ELSE /\ response' = Resp("destroy", u, "success",
                                "VPN tunnel destroyed successfully", FALSE, 0)
            /\ IF db_ok /\ rows # {}
               THEN \E c \in rows :
                      vpn_configs' = [vpn_configs EXCEPT ![c].is_active = FALSE]
               ELSE UNCHANGED vpn_configs

\* The client the index of process p names for user u (0: none).
IndexedClient(p, u) ==
    IF active_tunnels[p][u] = None THEN 0 ELSE Val(active_tunnels[p][u])

DestroyDynamicTunnel(p, u) ==
    /\ \E deleted \in DeleteResults(IndexedClient(p, u), panel_clients),
          db_ok \in BOOLEAN :
         destroy_dynamic_tunnel(p, u, deleted, db_ok)
    /\ UNCHANGED <<managerVars, results, panel_call, now, sweep, next_client, auxVars>>

\* GET /tunnel/status
GetTunnelStatus(p, u) ==
    /\ \E list_ok \in BOOLEAN :
         LET st == get_user_tunnel_status(active_tunnels[p], panel_clients, u, list_ok) IN
         /\ active_tunnels' = [active_tunnels EXCEPT ![p] = st.index]
         /\ response' = Resp("status", u, "success", st.msg, st.has_tunnel, 0)
    /\ UNCHANGED <<managerVars, results, panel_call, now, sweep, vpn_configs, panel_clients, next_client, auxVars>>

\* POST /admin/cleanup: DynamicTunnelManager.cleanup_inactive_tunnels.
CleanupInactiveTunnels(p) ==
    /\ \E list_ok \in BOOLEAN :
         LET index == active_tunnels[p]
             stale == IF (\A u \in Users : index[u] = None) \/ ~list_ok THEN {}
                      ELSE StaleUsers(index, panel_clients) IN
         /\ active_tunnels' = [active_tunnels EXCEPT ![p] =
                                  [u \in Users |-> IF u \in stale THEN None ELSE index[u]]]
         /\ response' = Resp("cleanup", 0, "success", "Cleaned up", FALSE, Cardinality(stale))
    /\ UNCHANGED <<managerVars, results, panel_call, now, sweep, vpn_configs, panel_clients, next_client, auxVars>>

\* Somebody deletes a client in the panel's own interface.
ExternalPanelDelete(cid) ==
    /\ cid \in panel_clients
    /\ panel_clients' = panel_clients \ {cid}
    /\ UNCHANGED <<managerVars, results, panel_call, now, sweep, vpn_configs, active_tunnels, next_client, response, auxVars>>

NextRoute ==
    \/ \E p \in Procs, u \in Users : CreateDynamicTunnel(p, u)
    \/ \E p \in Procs, u \in Users : DestroyDynamicTunnel(p, u)
    \/ \E p \in Procs, u \in Users : GetTunnelStatus(p, u)
    \/ \E p \in Procs : CleanupInactiveTunnels(p)
    \/ \E cid \in 1 .. MaxClients : ExternalPanelDelete(cid)

\* The deployment of the route path: server 1 is the wg-easy panel.
InitRoute == Init /\ HasPanel(1) /\ servers[1].subnet = SubnetBits

SpecRoute == InitRoute /\ [][NextRoute]_vars

\* ---------------------------------------------------------------------------
\* /health and /metrics of main.py, beside the tunnel routes.

\* DynamicTunnelManager.get_active_tunnel_count: len(self.active_tunnels)
get_active_tunnel_count(index) == Cardinality({u \in DOMAIN index : index[u] # None})

\* GET /health in process p: the count is that of the tunnel_manager global of
\* main.py; the status is degraded when the panel does not answer.
health_check(p) ==
    /\ \E panel_ok \in BOOLEAN :
         response' = Resp("health", 0, IF panel_ok THEN "healthy" ELSE "degraded",
                          "Running", FALSE, get_active_tunnel_count(main_tunnels[p]))
    /\ UNCHANGED <<managerVars, vpn_configs, results, active_tunnels, panel_clients,
                   next_client, panel_call, now, sweep, auxVars>>

\* GET /metrics in process p, with ENABLE_METRICS set.
get_metrics(p) ==
    /\ \E panel_ok \in BOOLEAN :
         response' = Resp("metrics", 0, IF panel_ok THEN "connected" ELSE "disconnected",
                          "none", FALSE, get_active_tunnel_count(main_tunnels[p]))
    /\ UNCHANGED <<managerVars, vpn_configs, results, active_tunnels, panel_clients,
                   next_client, panel_call, now, sweep, auxVars>>

NextHealth ==
    \/ \E p \in Procs, u \in Users : CreateDynamicTunnel(p, u)
    \/ \E p \in Procs, u \in Users : DestroyDynamicTunnel(p, u)
    \/ \E p \in Procs, u \in Users : GetTunnelStatus(p, u)
    \/ \E p \in Procs : CleanupInactiveTunnels(p)
    \/ \E cid \in 1 .. MaxClients : ExternalPanelDelete(cid)
    \/ \E p \in Procs : health_check(p)
    \/ \E p \in Procs : get_metrics(p)

SpecHealth == InitRoute /\ [][NextHealth]_vars

\* ---------------------------------------------------------------------------
\* The panel client observed call by call.

\* DELETE /tunnel/destroy with the delete_client call it makes on record; a
\* user without an index entry makes no call.
DestroyWithPanelCall(p, u) ==
    /\ \E deleted \in DeleteResults(IndexedClient(p, u), panel_clients),
          db_ok \in BOOLEAN :
         /\ destroy_dynamic_tunnel(p, u, deleted, db_ok)
         /\ panel_call' = IF active_tunnels[p][u] = None THEN NoCall
                          ELSE PanelCall("delete_client", p, u, deleted.answers,
                                         deleted.reauth, deleted.ok, deleted.msg)
    /\ UNCHANGED <<managerVars, results, next_client, now, sweep, auxVars>>

\* The operations the routes call on the panel client directly:
\* get_vpn_status (get_server_info), get_tunnel_config (get_client_config,
\* get_client_qr_code), toggle_tunnel (enable_client, disable_client) and
\* list_tunnels (list_clients).  None of them changes the set of clients.
RouteOps == PanelOps \ {"create_client", "delete_client"}

\* The results the panel can make operation op about client_id produce.
PanelResults(op, client_id, clients) ==
    {PanelOperation(op, authenticated, auth_ok, first, reauth_ok, retry) :
        authenticated \in BOOLEAN, auth_ok \in BOOLEAN,
        first \in PanelAnswers(SuccessCode(op), client_id, clients),
        reauth_ok \in BOOLEAN,
        retry \in PanelAnswers(SuccessCode(op), client_id, clients)}

PanelRequest(op, client_id) ==
    /\ op \in {"list_clients", "get_server_info"} => client_id = 0
    /\ op \notin {"list_clients", "get_server_info"} => client_id # 0
    /\ \E r \in PanelResults(op, client_id, panel_clients) :
         panel_call' = PanelCall(op, 0, 0, r.answers, r.reauth, r.ok, r.msg)
    /\ UNCHANGED <<managerVars, results, vpn_configs, routeVars, now, sweep, auxVars>>

\* One application process and one user are enough to observe the calls.
NextPanel ==
    \/ CreateDynamicTunnel(1, 1)
    \/ DestroyWithPanelCall(1, 1)
    \/ \E op \in RouteOps, cid \in 0 .. MaxClients : PanelRequest(op, cid)
    \/ \E cid \in 1 .. MaxClients : ExternalPanelDelete(cid)

SpecPanel == InitRoute /\ [][NextPanel]_vars

\* ---------------------------------------------------------------------------
\* ConnectionMonitor (src/utils/connection_monitor.py): the background thread
\* that destroys the tunnels of peers it finds disconnected.

\* self.disconnection_threshold, in seconds
disconnection_threshold == 300
\* start_monitoring(..., check_interval=60): seconds between two cycles
check_interval == 60
\* "if cycle_count % 5 == 0": cleanup_disconnected_peers runs every 5th cycle
cleanup_cycles == 5
\* Seconds from one cleanup to the next; the clock is read at this resolution.
cleanup_period == check_interval * cleanup_cycles
\* Number of cleanup periods the clock runs for.
MaxSweeps == 3
\* The thread start_monitoring starts.
MonitorThread == 2

\* What get_active_peers knows of a public key: whether `wg show wg0 dump`
\* lists it, and its last handshake (None for timestamp 0).  The handshake is
\* read with datetime.fromtimestamp, the clock with datetime.utcnow, so that
\* a handshake may lie on either side of the clock.
PeerStatus(present, last_handshake) ==
    [present |-> present, last_handshake |-> last_handshake]

PeerStatuses ==
    {PeerStatus(FALSE, None), PeerStatus(TRUE, None)}
    \cup {PeerStatus(TRUE, Some(k * cleanup_period)) : k \in 0 .. MaxSweeps}

\* ConnectionMonitor._is_peer_connected
is_peer_connected(last_handshake, utcnow) ==
    /\ last_handshake # None
    /\ utcnow - Val(last_handshake) < disconnection_threshold

\* A sweep that does not look at the age of a tunnel.
AnyAge(time_since_created) == TRUE

\* "if time_since_created.total_seconds() > self.disconnection_threshold"
PastThreshold(time_since_created) == time_since_created > disconnection_threshold

\* A sweep with one threshold for every tunnel, with or without a handshake.
cleanup_due_one_threshold(config, peer_status, utcnow) ==
    /\ ~peer_status.present
       \/ ~is_peer_connected(peer_status.last_handshake, utcnow)
    /\ utcnow - config.created_at > disconnection_threshold
    /\ (peer_status.present /\ peer_status.last_handshake # None)
         => utcnow - Val(peer_status.last_handshake) > disconnection_threshold

\* The body of the loop of cleanup_disconnected_peers: whether the row config
\* is passed to _cleanup_peer, given its entry of the dump.
cleanup_due(config, peer_status, utcnow) ==
    LET time_since_created == utcnow - config.created_at IN
    /\ ~peer_status.present
       \/ ~is_peer_connected(peer_status.last_handshake, utcnow)
    /\ PastThreshold(time_since_created)
    /\ IF peer_status.present /\ peer_status.last_handshake # None
       THEN utcnow - Val(peer_status.last_handshake) > disconnection_threshold
       ELSE time_since_created > disconnection_threshold * 2

\* db.query(VPNConfig).filter(VPNConfig.is_active == True).all()
ActiveConfigs(rows) == {c \in DOMAIN rows : rows[c].is_active}

\* time.sleep(check_interval) of the monitoring loop, cleanup_cycles times.
Tick ==
    /\ now < MaxSweeps * cleanup_period
    /\ now' = now + cleanup_period
    /\ UNCHANGED <<managerVars, vpn_configs, results, routeVars, panel_call, sweep, auxVars>>

\* The sets of rows a sweep at utcnow can choose, over all the dumps
\* get_active_peers can return.
Verdicts(rows, utcnow) ==
    LET active_configs == ActiveConfigs(rows) IN
    {{c \in active_configs : cleanup_due(rows[c], active_peers[c], utcnow)} :
        active_peers \in [active_configs -> PeerStatuses]}

\* ConnectionMonitor.cleanup_disconnected_peers up to its calls of
\* _cleanup_peer: the rows it chooses are recorded.
cleanup_disconnected_peers ==
    /\ th[MonitorThread].pc \in {"idle", "done"}
    /\ sweep.pending = {}
    /\ \E chosen \in Verdicts(vpn_configs, now) :
         sweep' = [chosen |-> chosen, pending |-> chosen]
    /\ UNCHANGED <<managerVars, vpn_configs, results, routeVars, panel_call, now, auxVars>>

\* ConnectionMonitor._cleanup_peer: the monitor thread calls
\* destroy_tunnel_with_validation for a row the sweep chose.
cleanup_peer(c) ==
    /\ c \in sweep.pending
    /\ th[MonitorThread].pc \in {"idle", "done"}
    /\ sweep' = [sweep EXCEPT !.pending = @ \ {c}]
    /\ th' = [th EXCEPT ![MonitorThread] = [IdleThread EXCEPT
                 !.pc = "d_remove_peer", !.op = "destroy",
                 !.server_id = vpn_configs[c].server_id,
                 !.user_id = vpn_configs[c].user_id,
                 !.public_key = vpn_configs[c].public_key,
                 !.vpn_config = Some(c)]]
    /\ UNCHANGED <<dbVars, wg_peers, panel_peers, next_key, calls, results, routeVars,
                   panel_call, now, auxVars>>

\* A request thread creates tunnels while the monitor thread sweeps.
NextMonitor ==
    \/ \E s \in ServerIds, u \in Users : calls < MaxCalls /\ CreateTunnelCall(1, s, u)
    \/ CreateValidate(1)
    \/ CreateAddPeer(1)
    \/ CreateCommit(1)
    \/ CreateVerify(1)
    \/ Tick
    \/ cleanup_disconnected_peers
    \/ \E c \in 1 .. MaxCalls : cleanup_peer(c)
    \/ DestroyRemovePeer(MonitorThread)
    \/ DestroyCommit(MonitorThread)
    \/ DestroyVerify(MonitorThread)

\* get_active_peers as cleanup_disconnected_peers sees it: when the wg command
\* fails, times out or raises, the function returns {}, in which no public
\* key has a PeerStatus.
Dumps(active_configs, dump_ok) ==
    IF dump_ok THEN [active_configs -> PeerStatuses]
    ELSE {[c \in active_configs |-> PeerStatus(FALSE, None)]}

\* cleanup_disconnected_peers with the dump it read on record: whether the wg
\* command succeeded and, for every active row, what get_active_peers
\* returned for its public key. It is the one sweep the behaviour observes.
CleanupWithDump ==
    /\ th[MonitorThread].pc \in {"idle", "done"}
    /\ sweep = NoSweep
    /\ \E dump_ok \in BOOLEAN :
       \E active_peers \in Dumps(ActiveConfigs(vpn_configs), dump_ok) :
         LET chosen == {c \in ActiveConfigs(vpn_configs) :
                           cleanup_due(vpn_configs[c], active_peers[c], now)}
         IN  sweep' = [chosen |-> chosen, pending |-> chosen, peers |-> active_peers,
                       dump_ok |-> dump_ok]
    /\ UNCHANGED <<managerVars, vpn_configs, results, routeVars, panel_call, now, auxVars>>

NextSweep ==
    \/ \E s \in ServerIds, u \in Users : calls < MaxCalls /\ CreateTunnelCall(1, s, u)
    \/ CreateValidate(1)
    \/ CreateAddPeer(1)
    \/ CreateCommit(1)
    \/ CreateVerify(1)
    \/ Tick
    \/ CleanupWithDump
    \/ \E c \in 1 .. MaxCalls : cleanup_peer(c)
    \/ DestroyRemovePeer(MonitorThread)
    \/ DestroyCommit(MonitorThread)
    \/ DestroyVerify(MonitorThread)

\* The monitor reads the local interface (wg show wg0 dump): the server is the
\* directly managed one, with the largest pool.
InitMonitor == Init /\ ~HasPanel(1) /\ servers[1].subnet = SubnetBits

SpecMonitor == InitMonitor /\ [][NextMonitor]_vars

SpecSweep == InitMonitor /\ [][NextSweep]_vars

\* ---------------------------------------------------------------------------
\* The two background loops: ConnectionMonitor._monitor_connections and
\* ServerManager._monitor_servers, with start_monitoring / stop_monitoring.

Monitors == {"connection", "server"}

\* How a loop thread stands: "none" (no such thread, or it has left its loop),
\* "ready" (about to test `while self.monitoring_active`), "sleep" (in
\* time.sleep(check_interval) after an iteration that ended normally), "failed"
\* (in the same sleep, after an iteration whose exception was caught and
\* logged), "dead" (ended by an exception nothing caught).
LoopThread(pc, cycle_count) ==
    [pc |-> pc, cycle_count |-> cycle_count,
     iterations |-> 0, since_sweep |-> 0, swept |-> FALSE]

NoThread == LoopThread("none", 0)

\* An iteration ends normally ("ok") or raises: "error" anywhere in the body
\* of _monitor_servers; in _monitor_connections before the cleanup
\* ("error_before": db_session_factory()) or after it and before
\* `cycle_count += 1` ("error_after": db.close()).  update_usage_stats,
\* cleanup_disconnected_peers and get_active_peers catch their own exceptions.
Outcomes(m) ==
    IF m = "connection" THEN {"ok", "error_before", "error_after"} ELSE {"ok", "error"}

\* A loop without its try / except: the exception ends the thread.
Uncaught == "dead"

\* "except Exception as e: logger.error(...)": the loop goes on to its sleep.
Caught == "failed"

\* "if cycle_count % 5 == 0: self.cleanup_disconnected_peers(db)"
SweepsNow(m, thr, outcome) ==
    /\ m = "connection"
    /\ outcome # "error_before"
    /\ thr.cycle_count % cleanup_cycles = 0

\* One pass of the while loop of a thread found ready.  cycle_count is kept
\* modulo cleanup_cycles, which is all the loop reads of it.
Iterated(m, active, thr, outcome) ==
    IF ~active
    THEN NoThread
    ELSE IF outcome = "ok"
    THEN [thr EXCEPT !.pc = "sleep",
                     !.cycle_count = IF m = "connection"
                                     THEN (@ + 1) % cleanup_cycles ELSE @]
    ELSE [thr EXCEPT !.pc = Caught]

\* The same pass with its history on record: whether the thread has run an
\* iteration, whether it has invoked the cleanup and how many iterations it
\* has run since (counted up to cleanup_cycles).
Observed(m, active, thr, outcome) ==
    LET after == Iterated(m, active, thr, outcome) IN
    IF ~active THEN after
    ELSE IF SweepsNow(m, thr, outcome)
    THEN [after EXCEPT !.iterations = 1, !.since_sweep = 0, !.swept = TRUE]
    ELSE [after EXCEPT !.iterations = 1,
                       !.since_sweep = IF @ < cleanup_cycles THEN @ + 1 ELSE @]

\* start_monitoring: nothing if monitoring_active, else a new thread.
start_monitoring(m) ==
    /\ IF loops[m].monitoring_active
       THEN UNCHANGED loops
       ELSE \E k \in DOMAIN loops[m].threads :
              /\ loops[m].threads[k].pc = "none"
              /\ \A j \in DOMAIN loops[m].threads :
                   j < k => loops[m].threads[j].pc # "none"
              /\ loops' = [loops EXCEPT ![m].monitoring_active = TRUE,
                                        ![m].threads[k] = LoopThread("ready", 0)]
    /\ UNCHANGED <<managerVars, vpn_configs, results, routeVars, panel_call, now, sweep,
                   users, wg_call, admin, usage_logs, main_tunnels>>

\* stop_monitoring: the flag is cleared and monitor_thread.join(timeout=10)
\* waits. A thread at its loop test sees the flag and has left its loop when
\* the join returns; a thread in time.sleep(check_interval), 60 or 300
\* seconds, is still in its sleep when the join times out.
stop_monitoring(m) ==
    /\ loops' = [loops EXCEPT ![m].monitoring_active = FALSE,
                              ![m].threads = [k \in DOMAIN @ |->
                                                IF @[k].pc = "ready" THEN NoThread
                                                ELSE @[k]]]
    /\ UNCHANGED <<managerVars, vpn_configs, results, routeVars, panel_call, now, sweep,
                   users, wg_call, admin, usage_logs, main_tunnels>>

\* A ready thread tests the flag and runs one iteration or leaves the loop.
monitor_iteration(m, k) ==
    /\ loops[m].threads[k].pc = "ready"
    /\ \E outcome \in Outcomes(m) :
         loops' = [loops EXCEPT ![m].threads[k] =
                      Iterated(m, loops[m].monitoring_active, @, outcome)]
    /\ UNCHANGED <<managerVars, vpn_configs, results, routeVars, panel_call, now, sweep,
                   users, wg_call, admin, usage_logs, main_tunnels>>

\* time.sleep(check_interval) returns.
monitor_wake(m, k) ==
    /\ loops[m].threads[k].pc \in {"sleep", "failed"}
    /\ loops' = [loops EXCEPT ![m].threads[k].pc = "ready"]
    /\ UNCHANGED <<managerVars, vpn_configs, results, routeVars, panel_call, now, sweep,
                   users, wg_call, admin, usage_logs, main_tunnels>>

NextLoop ==
    \/ \E m \in Monitors : start_monitoring(m)
    \/ \E m \in Monitors : stop_monitoring(m)
    \/ \E m \in Monitors, k \in 1 .. MaxLoopThreads : monitor_iteration(m, k)
    \/ \E m \in Monitors, k \in 1 .. MaxLoopThreads : monitor_wake(m, k)

SpecLoop == InitMonitor /\ [][NextLoop]_vars

\* monitor_iteration of the connection monitor with the thread's history on
\* record.
monitor_iteration_observed(k) ==
    /\ loops["connection"].threads[k].pc = "ready"
    /\ \E outcome \in Outcomes("connection") :
         loops' = [loops EXCEPT !["connection"].threads[k] =
                      Observed("connection", loops["connection"].monitoring_active,
                               @, outcome)]
    /\ UNCHANGED <<managerVars, vpn_configs, results, routeVars, panel_call, now, sweep,
                   users, wg_call, admin, usage_logs, main_tunnels>>

NextCycle ==
    \/ start_monitoring("connection")
    \/ stop_monitoring("connection")
    \/ \E k \in 1 .. MaxLoopThreads : monitor_iteration_observed(k)
    \/ \E k \in 1 .. MaxLoopThreads : monitor_wake("connection", k)

SpecCycle == InitMonitor /\ [][NextCycle]_vars

\* The scheduler runs every loop thread and every sleep ends.
FairLoop ==
    \A m \in Monitors, k \in 1 .. MaxLoopThreads :
        WF_vars(monitor_iteration(m, k)) /\ WF_vars(monitor_wake(m, k))

SpecLoopFair == InitMonitor /\ [][NextLoop]_vars /\ FairLoop

\* ---------------------------------------------------------------------------
\* Administration routes (src/routes/admin.py).

\* What destroy_tunnel_with_validation does to one row inside a request:
\* "removed" (peer removed, row deactivated), "simulated" (removal reported
\* without the peer being removed, row deactivated), "failed" (removal
\* reported False: nothing changes), "error" (peer removed, the commit raises
\* and is rolled back).
DestroyOutcomes == {"removed", "simulated", "failed", "error"}

Deactivated(outcome) == outcome \in {"removed", "simulated"}

\* DELETE /admin/user/{user_id}/revoke: every active row of the user is passed
\* to destroy_tunnel_with_validation, then user.is_active = False; db.commit().
revoke_user_access(u) ==
    /\ u \in DOMAIN users
    /\ LET configs == ActiveConfigsOfUser(vpn_configs, u) IN
       \E outcome \in [configs -> DestroyOutcomes],
          pick \in [configs -> {0} \cup UNION {AllocationsOf(ip_allocations, c) :
                                                  c \in configs}],
          db_ok \in BOOLEAN :
         LET revoked == {c \in configs : Deactivated(outcome[c])}
             gone == {c \in configs : outcome[c] \in {"removed", "error"}} IN
         /\ \A c \in configs :
              IF AllocationsOf(ip_allocations, c) = {}
              THEN pick[c] = 0
              ELSE pick[c] \in First(AllocationsOf(ip_allocations, c))
         /\ vpn_configs' = [c \in DOMAIN vpn_configs |->
                              IF c \in revoked
                              THEN [vpn_configs[c] EXCEPT !.is_active = FALSE]
                              ELSE vpn_configs[c]]
         /\ ip_allocations' = [a \in DOMAIN ip_allocations |->
                                 IF \E c \in revoked : pick[c] = a
                                 THEN ReleaseAllocation(ip_allocations[a])
                                 ELSE ip_allocations[a]]
         /\ wg_peers' = wg_peers \ {vpn_configs[c].public_key :
                                      c \in {d \in gone : ~HasPanel(vpn_configs[d].server_id)}}
         /\ panel_peers' = panel_peers \ {vpn_configs[c].public_key :
                                      c \in {d \in gone : HasPanel(vpn_configs[d].server_id)}}
         /\ IF db_ok
            THEN /\ users' = [users EXCEPT ![u].is_active = FALSE]
                 /\ response' = Resp("revoke", u, "success", "Revoked access for user",
                                     FALSE, Cardinality(revoked))
            ELSE /\ UNCHANGED users
                 /\ response' = Resp("revoke", u, "error", "Internal Server Error",
                                     FALSE, 0)
    /\ UNCHANGED <<servers, next_key, calls, th, results, active_tunnels, panel_clients,
                   next_client, panel_call, now, sweep, loops, wg_call, admin,
                   usage_logs, main_tunnels>>

\* POST /admin/user/{user_id}/activate
activate_user(u) ==
    /\ u \in DOMAIN users
    /\ users' = [users EXCEPT ![u].is_active = TRUE]
    /\ response' = Resp("activate", u, "success", "Activated user", FALSE, 0)
    /\ UNCHANGED <<managerVars, vpn_configs, results, active_tunnels, panel_clients,
                   next_client, panel_call, now, sweep, loops, wg_call, admin,
                   usage_logs, main_tunnels>>

\* DELETE /servers/{server_id} with its response: ResourceConflict while the
\* server has active VPNConfig rows; otherwise server.is_active = False and
\* db.commit(), whose failure is answered "Failed to delete server".
DeleteServer(s) ==
    /\ s \in DOMAIN servers
    /\ LET active_configs == Cardinality(ActiveConfigsOfServer(vpn_configs, s)) IN
       IF active_configs > 0
       THEN /\ UNCHANGED servers
            /\ response' = Resp("delete_server", 0, "error", "ResourceConflict",
                                FALSE, active_configs)
       ELSE \E db_ok \in BOOLEAN :
              IF db_ok
              THEN /\ servers' = [servers EXCEPT ![s].is_active = FALSE]
                   /\ response' = Resp("delete_server", 0, "success",
                                       "Server has been deactivated", FALSE, 0)
              ELSE /\ UNCHANGED servers
                   /\ response' = Resp("delete_server", 0, "error",
                                       "Failed to delete server", FALSE, 0)
    /\ UNCHANGED <<vpn_configs, ip_allocations, wg_peers, panel_peers, next_key, calls,
                   th, results, active_tunnels, panel_clients, next_client,
                   panel_call, now, sweep, auxVars>>

\* A request thread creates tunnels while the administrator revokes and
\* activates users and deletes servers.
NextAdmin ==
    \/ \E s \in ServerIds, u \in Users : calls < MaxCalls /\ CreateTunnelCall(1, s, u)
    \/ CreateValidate(1)
    \/ CreateAddPeer(1)
    \/ CreateCommit(1)
    \/ CreateVerify(1)
    \/ \E u \in Users : revoke_user_access(u)
    \/ \E u \in Users : activate_user(u)
    \/ \E s \in ServerIds : DeleteServer(s)

SpecAdmin == Init /\ [][NextAdmin]_vars

\* ---------------------------------------------------------- routes/servers.py
\* Administration of the servers table (src/routes/servers.py). Every request
\* has its own DB session; a request's queries, its commit and its
\* populate_ip_pool are separate transactions that other requests may overlap.
Requests == DOMAIN NoRequests.req
Endpoints == {"vpn1.example", "vpn2.example"}
Ports == {WireGuardPort, WireGuardPort + 1}
\* 'subnet' of the panel's answer as its number of host bits: a prefix longer
\* than 32 is no network, /31 has two addresses.
PanelSubnets == {-1, 1, SubnetBits}

\* db.query(Server).filter(Server.endpoint == endpoint, Server.port == port,
\* Server.id != server_id): the ids of the matching rows (server_id 0: no
\* id filter).
ExistingServers(endpoint, port, server_id) ==
    {s \in DOMAIN servers :
        /\ servers[s].endpoint = endpoint
        /\ servers[s].port = port
        /\ s # server_id}

Request(pc, op, server_id, endpoint, port, subnet) ==
    [pc |-> pc, op |-> op, server_id |-> server_id,
     endpoint |-> endpoint, port |-> port, subnet |-> subnet]

\* The request answers and its session ends.
Answers(r, status, message) ==
    /\ admin' = [admin EXCEPT !.req[r] = IdleRequest]
    /\ response' = Resp(admin.req[r].op, 0, status, message, FALSE, 0)

AnswersAt(r, op, status, message) ==
    /\ admin' = [admin EXCEPT !.req[r] = IdleRequest]
    /\ response' = Resp(op, 0, status, message, FALSE, 0)

serverRouteVars == <<vpn_configs, wg_peers, panel_peers, next_key, calls, th, results,
                     active_tunnels, panel_clients, next_client, panel_call, now,
                     sweep, users, loops, wg_call, usage_logs, main_tunnels>>

\* POST /servers/: the check for an existing server with this endpoint and
\* port, up to db.add(new_server).
create_server(r, endpoint, port) ==
    /\ admin.req[r].pc = "idle"
    /\ admin.id_seq < MaxServers
    /\ IF ExistingServers(endpoint, port, 0) # {}
       THEN AnswersAt(r, "create_server", "error", "ResourceConflict")
       ELSE /\ admin' = [admin EXCEPT !.req[r] =
                           Request("commit", "create_server", 0, endpoint, port,
                                   Some(SubnetBits))]
            /\ UNCHANGED response
    /\ UNCHANGED <<servers, ip_allocations, serverRouteVars>>

\* POST /servers/create-from-panel: the endpoint is the panel URL's host name;
\* the check for an existing server with it and port 51820, the connection
\* test, add_panel and get_panel_info, up to db.add(new_server). The server
\* info is the panel's (its own subnet) or the generated default.
create_server_from_panel(r, endpoint, panel_accessible, subnet) ==
    /\ admin.req[r].pc = "idle"
    /\ admin.id_seq < MaxServers
    /\ IF ExistingServers(endpoint, WireGuardPort, 0) # {}
       THEN AnswersAt(r, "create_server_from_panel", "error", "ResourceConflict")
       ELSE IF ~panel_accessible
       THEN AnswersAt(r, "create_server_from_panel", "error", "PanelError")
       ELSE /\ admin' = [admin EXCEPT !.req[r] =
                           Request("commit", "create_server_from_panel", 0, endpoint,
                                   WireGuardPort, Some(subnet))]
            /\ UNCHANGED response
    /\ UNCHANGED <<servers, ip_allocations, serverRouteVars>>

\* db.add(new_server); db.commit(); db.refresh(new_server) of both creating
\* handlers; a failing commit is rolled back and answered with an error.
server_commit(r) ==
    /\ admin.req[r].pc = "commit"
    /\ \E db_ok \in BOOLEAN :
         IF db_ok
         THEN LET id == admin.id_seq + 1
                  q == admin.req[r]
                  new_server == [endpoint |-> q.endpoint, port |-> q.port,
                                 panel_url |-> IF q.op = "create_server" THEN None
                                               ELSE Some("panel"),
                                 subnet |-> Val(q.subnet), is_active |-> TRUE]
              IN  /\ servers' = [s \in DOMAIN servers \cup {id} |->
                                   IF s = id THEN new_server ELSE servers[s]]
                  /\ admin' = [admin EXCEPT !.id_seq = id,
                                            !.req[r].pc = "populate",
                                            !.req[r].server_id = id]
                  /\ UNCHANGED response
         ELSE /\ Answers(r, "error", "Failed to create server")
              /\ UNCHANGED servers
    /\ UNCHANGED <<ip_allocations, serverRouteVars>>

\* populate_ip_pool(db, new_server.id, subnet) as the creating handlers call
\* it. It raises for a subnet that is no network and when its commit fails,
\* and then has inserted nothing; create_server answers with an error and
\* leaves the server row, create_server_from_panel deletes the server row
\* first (db.delete(new_server); db.commit()) unless that commit fails too.
server_populate(r) ==
    /\ admin.req[r].pc = "populate"
    /\ LET q == admin.req[r] IN
       \E db_ok \in BOOLEAN, delete_ok \in BOOLEAN :
         IF db_ok /\ Val(q.subnet) >= 0
         THEN /\ ip_allocations' = populate_ip_pool(ip_allocations, q.server_id,
                                                    Val(q.subnet))
              /\ Answers(r, "success", "created")
              /\ UNCHANGED servers
         ELSE /\ UNCHANGED ip_allocations
              /\ Answers(r, "error", "Failed to create server")
              /\ IF q.op = "create_server_from_panel" /\ delete_ok
                 THEN servers' = [s \in DOMAIN servers \ {q.server_id} |-> servers[s]]
                 ELSE UNCHANGED servers
    /\ UNCHANGED serverRouteVars

\* PUT /servers/{server_id}: the lookup of the server and the check for
\* another server with this endpoint and port.
update_server(r, server_id, endpoint, port) ==
    /\ admin.req[r].pc = "idle"
    /\ IF server_id \notin DOMAIN servers
       THEN AnswersAt(r, "update_server", "error", "ResourceNotFound")
       ELSE IF ExistingServers(endpoint, port, server_id) # {}
       THEN AnswersAt(r, "update_server", "error", "ResourceConflict")
       ELSE /\ admin' = [admin EXCEPT !.req[r] =
                           Request("update", "update_server", server_id, endpoint,
                                   port, None)]
            /\ UNCHANGED response
    /\ UNCHANGED <<servers, ip_allocations, serverRouteVars>>

\* server.endpoint = ...; server.port = ...; db.commit() of update_server. The
\* UPDATE of a row that was deleted meanwhile fails like any other commit.
update_commit(r) ==
    /\ admin.req[r].pc = "update"
    /\ LET q == admin.req[r] IN
       \E db_ok \in BOOLEAN :
         IF db_ok /\ q.server_id \in DOMAIN servers
         THEN /\ servers' = [servers EXCEPT ![q.server_id].endpoint = q.endpoint,
                                            ![q.server_id].port = q.port]
              /\ Answers(r, "success", "updated")
         ELSE /\ UNCHANGED servers
              /\ Answers(r, "error", "Failed to update server")
    /\ UNCHANGED <<ip_allocations, serverRouteVars>>

NextServers ==
    \/ \E r \in Requests, e \in Endpoints, p \in Ports : create_server(r, e, p)
    \/ \E r \in Requests, e \in Endpoints, ok \in BOOLEAN, b \in PanelSubnets :
         create_server_from_panel(r, e, ok, b)
    \/ \E r \in Requests : server_commit(r)
    \/ \E r \in Requests : server_populate(r)
    \/ \E r \in Requests, s \in 1 .. MaxServers, e \in Endpoints, p \in Ports :
         update_server(r, s, e, p)
    \/ \E r \in Requests : update_commit(r)

SpecServers == InitMonitor /\ [][NextServers]_vars

\* C24: no two rows of the servers table have the same endpoint and port,
\* whatever way the creating and updating requests overlap.
C24_UniqueEndpoint ==
    \A s1 \in DOMAIN servers, s2 \in DOMAIN servers :
        (servers[s1].endpoint = servers[s2].endpoint /\ servers[s1].port = servers[s2].port)
            => s1 = s2

\* ---------------------------------------------------------- utils/wireguard.py
\* A string is the sequence of its characters. The fixed pieces of the client
\* configuration ("PrivateKey = ", "/24", ...) are single characters of the
\* text; the arguments are strings over Chars.
Chars == {"k", ":", "\n"}

\* The strings over Chars of at most n characters.
Strings(n) == UNION {[1 .. k -> Chars] : k \in 0 .. n}

Digit == <<"0", "1", "2", "3", "4", "5", "6", "7", "8", "9">>

\* str(n) of a non-negative int
RECURSIVE IntToStr(_)
IntToStr(n) ==
    IF n < 10 THEN <<Digit[n + 1]>> ELSE Append(IntToStr(n \div 10), Digit[(n % 10) + 1])

\* int(s): None unless s is a non-empty string of digits
RECURSIVE StrToInt(_)
StrToInt(s) ==
    IF s = <<>> \/ \E i \in DOMAIN s : \A d \in DOMAIN Digit : s[i] # Digit[d]
    THEN None
    ELSE LET last == (CHOOSE d \in DOMAIN Digit : Digit[d] = s[Len(s)]) - 1 IN
         IF Len(s) = 1 THEN Some(last)
         ELSE Some(10 * Val(StrToInt(SubSeq(s, 1, Len(s) - 1))) + last)

\* create_client_config: the f-string, piece by piece (DNS is settings.VPN_DNS).
create_client_config(private_key, allocated_ip, server_public_key, server_preshared_key, server_endpoint, server_port) ==
    <<"[Interface]", "\n", "PrivateKey = ">> \o private_key
        \o <<"\n", "Address = ">> \o allocated_ip \o <<"/24", "\n">>
        \o <<"DNS = ", "1", ".", "1", ".", "1", ".", "1", "\n", "\n">>
        \o <<"[Peer]", "\n", "PublicKey = ">> \o server_public_key
        \o <<"\n", "PresharedKey = ">> \o server_preshared_key
        \o <<"\n", "AllowedIPs = ", "0.0.0.0/0, ::/0", "\n">>
        \o <<"PersistentKeepalive = ", "2", "5", "\n">>
        \o <<"Endpoint = ">> \o server_endpoint \o <<":">> \o IntToStr(server_port)
        \o <<"\n">>

\* text.split("\n")
RECURSIVE SplitLines(_)
SplitLines(text) ==
    IF \A i \in DOMAIN text : text[i] # "\n" THEN <<text>>
    ELSE LET i == CHOOSE j \in DOMAIN text :
                    text[j] = "\n" /\ \A h \in 1 .. (j - 1) : text[h] # "\n"
         IN  <<SubSeq(text, 1, i - 1)>> \o SplitLines(SubSeq(text, i + 1, Len(text)))

\* The value of the first line "key = value" of the text, None without one.
ValueOf(text, key) ==
    LET lines == SplitLines(text)
        found == {i \in DOMAIN lines : lines[i] # <<>> /\ Head(lines[i]) = key}
    IN  IF found = {} THEN None
        ELSE Some(Tail(lines[CHOOSE i \in found : \A j \in found : i <= j]))

ClientConfig(private_key, allocated_ip, server_public_key, server_preshared_key, server_endpoint, server_port) ==
    [private_key |-> private_key, allocated_ip |-> allocated_ip,
     server_public_key |-> server_public_key,
     server_preshared_key |-> server_preshared_key,
     server_endpoint |-> server_endpoint, server_port |-> server_port]

\* Reading a client configuration back by its keys: PrivateKey, Address
\* without its "/24", PublicKey, PresharedKey, and Endpoint split at its last
\* colon into the endpoint and the port. None where a key is missing, the
\* address has no "/24", the endpoint no colon or the port is no number.
parse_client_config(text) ==
    LET private_key == ValueOf(text, "PrivateKey = ")
        address == ValueOf(text, "Address = ")
        public_key == ValueOf(text, "PublicKey = ")
        preshared_key == ValueOf(text, "PresharedKey = ")
        endpoint == ValueOf(text, "Endpoint = ")
    IN  IF None \in {private_key, address, public_key, preshared_key, endpoint}
        THEN None
        ELSE LET a == Val(address)
                 e == Val(endpoint)
                 colons == {i \in DOMAIN e : e[i] = ":"}
             IN  IF a = <<>> \/ a[Len(a)] # "/24" \/ colons = {} THEN None
                 ELSE LET c == CHOOSE i \in colons : \A j \in colons : j <= i
                          port == StrToInt(SubSeq(e, c + 1, Len(e)))
                      IN  IF port = None THEN None
                          ELSE Some(ClientConfig(Val(private_key),
                                                 SubSeq(a, 1, Len(a) - 1),
                                                 Val(public_key), Val(preshared_key),
                                                 SubSeq(e, 1, c - 1), Val(port)))

\* str(ip) and the IPv4Address of an address: a str and an IPv4Address are
\* never equal.
Str(ip) == <<"str", ip>>
IPv4Address(ip) == <<"IPv4Address", ip>>

\* get_next_available_ip: the first host address whose str is not in
\* allocated_ips and differs from network.network_address + 1.
get_next_available_ip(bits, allocated_ips) ==
    LET hosts == Hosts(bits)
        free == {i \in DOMAIN hosts :
                    /\ Str(hosts[i]) \notin allocated_ips
                    /\ Str(hosts[i]) # IPv4Address(0 + 1)}
    IN  IF free = {} THEN None
        ELSE Some(Str(hosts[CHOOSE i \in free : \A j \in free : i <= j]))

wireguardVars == <<dbVars, wg_peers, panel_peers, next_key, calls, th, results,
                   routeVars, panel_call, now, sweep, users, loops, admin,
                   usage_logs, main_tunnels>>

\* A call of get_next_available_ip(subnet, allocated_ips), the one call the
\* behaviour observes.
CallGetNextAvailableIp(bits, allocated_ips) ==
    /\ wg_call = NoWgCall
    /\ wg_call' = [fn |-> "get_next_available_ip", subnet |-> bits,
                   allocated_ips |-> allocated_ips,
                   ret |-> get_next_available_ip(bits, allocated_ips)]
    /\ UNCHANGED wireguardVars

\* A call of create_client_config(...), the one call the behaviour observes.
CallCreateClientConfig(args) ==
    /\ wg_call = NoWgCall
    /\ wg_call' = [fn |-> "create_client_config", args |-> args,
                   ret |-> create_client_config(args.private_key, args.allocated_ip,
                                                args.server_public_key,
                                                args.server_preshared_key,
                                                args.server_endpoint, args.server_port)]
    /\ UNCHANGED wireguardVars

\* A peer row of `wg show <iface> dump`, split at its tabs: public key,
\* preshared key, endpoint, allowed ips, latest handshake, transfer rx,
\* transfer tx and persistent keepalive, each field the string wg prints.
DumpRows ==
    {<<<<"k">>, <<"(none)">>, endpoint, <<"10.8.0.2/32">>, handshake, rx, tx, <<"off">>>> :
        endpoint \in {<<"(none)">>, <<"1.2.3.4", ":", "5">>},
        handshake \in {<<"0">>, <<"3", "0", "0">>},
        rx \in {<<"0">>, <<"7">>},
        tx \in {<<"0">>, <<"9">>}}

\* ConnectionMonitor.get_active_peers for one row (parts): the fields of the
\* PeerStatus it builds, None for a row it skips. parts[i] of the code is
\* parts[i + 1] here; a handshake that is no number is left None, a byte
\* count that is no number raises and the dump is lost.
get_active_peers(parts) ==
    IF Len(parts) < 6 THEN None
    ELSE LET last_handshake_timestamp == parts[5]
             bytes_received == IF parts[6] # <<>> THEN StrToInt(parts[6]) ELSE Some(0)
             bytes_sent == IF Len(parts) > 6 /\ parts[7] # <<>>
                           THEN StrToInt(parts[7]) ELSE Some(0)
         IN  IF bytes_received = None \/ bytes_sent = None THEN None
             ELSE Some([last_handshake |->
                           IF last_handshake_timestamp # <<>>
                              /\ last_handshake_timestamp # <<"0">>
                           THEN StrToInt(last_handshake_timestamp) ELSE None,
                        bytes_received |-> Val(bytes_received),
                        bytes_sent |-> Val(bytes_sent),
                        endpoint |-> IF parts[3] # <<"(none)">> THEN Some(parts[3])
                                     ELSE None])

\* get_peer_stats for the row of its public key: the dictionary it returns,
\* None where int() raises (the function then returns {}).
get_peer_stats(parts) ==
    IF Len(parts) < 6 THEN None
    ELSE LET bytes_received == StrToInt(parts[5])
             bytes_sent == StrToInt(parts[6])
         IN  IF bytes_received = None \/ bytes_sent = None THEN None
             ELSE Some([last_handshake |-> IF parts[4] # <<"0">> THEN Some(parts[4])
                                           ELSE None,
                        bytes_received |-> Val(bytes_received),
                        bytes_sent |-> Val(bytes_sent),
                        endpoint |-> IF parts[3] # <<"(none)">> THEN Some(parts[3])
                                     ELSE None])

\* Both parsers read the same row of one dump.
CallDumpParsers(parts) ==
    /\ wg_call = NoWgCall
    /\ wg_call' = [fn |-> "dump", parts |-> parts,
                   peer_status |-> get_active_peers(parts),
                   peer_stats |-> get_peer_stats(parts)]
    /\ UNCHANGED wireguardVars

Texts == Strings(MaxText)

NextWireguard ==
    \/ \E bits \in 1 .. SubnetBits,
          allocated \in SUBSET {Str(ip) : ip \in 0 .. (Pow2(SubnetBits) - 1)} :
         CallGetNextAvailableIp(bits, allocated)
    \/ \E private_key \in Texts, allocated_ip \in Texts, public_key \in Texts,
          preshared_key \in Texts, endpoint \in Texts, port \in Ports :
         CallCreateClientConfig(ClientConfig(private_key, allocated_ip, public_key,
                                             preshared_key, endpoint, port))
    \/ \E parts \in DumpRows : CallDumpParsers(parts)

SpecWireguard == InitMonitor /\ [][NextWireguard]_vars

\* C26: get_next_available_ip returns neither the gateway (network address +
\* 1) nor an address of allocated_ips, and returns None only when every host
\* address other than the gateway is in allocated_ips.
C26_NextIpNotGatewayNotAllocated ==
    wg_call.fn = "get_next_available_ip" =>
        LET last == Pow2(wg_call.subnet) - 1
            usable == {ip \in 0 .. last :
                          /\ ip # 1
                          /\ wg_call.subnet >= 2 => (0 < ip /\ ip < last)
                          /\ Str(ip) \notin wg_call.allocated_ips}
        IN  IF wg_call.ret = None THEN usable = {}
            ELSE \E ip \in usable : wg_call.ret = Some(Str(ip))

\* C28: reading back the text create_client_config renders yields the six
\* values it was rendered from.
C28_ConfigRoundTrip ==
    wg_call.fn = "create_client_config" =>
        parse_client_config(wg_call.ret) = Some(wg_call.args)

\* ------------------------------------------------------- usage statistics
\* Rows of usage_logs a behaviour may hold.
MaxLogs == 2

\* UsageLog(user_id=vpn_config.user_id, vpn_config_id=vpn_config.id,
\*          bytes_sent=..., bytes_received=..., last_handshake=...)
UsageLog(rows, c, peer_status) ==
    [user_id |-> rows[c].user_id, vpn_config_id |-> c,
     bytes_sent |-> peer_status.bytes_sent,
     bytes_received |-> peer_status.bytes_received,
     last_handshake |-> peer_status.last_handshake]

\* db.query(VPNConfig).filter(VPNConfig.public_key == public_key,
\*                            VPNConfig.is_active == True)
ActiveConfigsOfKey(rows, public_key) ==
    {c \in DOMAIN rows : rows[c].public_key = public_key /\ rows[c].is_active}

\* The loop of update_usage_stats over active_peers.items(), in the order of
\* the dump: the rows passed to db.add.
RECURSIVE PendingLogs(_, _, _)
PendingLogs(rows, active_peers, keys) ==
    IF keys = {} THEN <<>>
    ELSE LET public_key == CHOOSE k \in keys : \A j \in keys : k <= j
             matching == ActiveConfigsOfKey(rows, public_key)
             rest == PendingLogs(rows, active_peers, keys \ {public_key})
         IN  IF matching = {} THEN rest
             ELSE <<UsageLog(rows, CHOOSE c \in matching : \A d \in matching : c <= d,
                             active_peers[public_key])>> \o rest

\* A failure path that keeps what db.add had queued.
KeepPending(pending) == pending

\* db.rollback() of the except branch: the session's pending rows are dropped.
Rollback(pending) == <<>>

\* What get_active_peers returns: a PeerStatus for every peer of the
\* interface, or {} when the wg command failed.
\* The peers are idle clients without endpoint that have received 7 bytes.
ActivePeers ==
    LET rows == {parts \in DumpRows : parts[3] = <<"(none)">> /\ parts[6] = <<"7">>} IN
    UNION {{[k \in keys |-> Val(get_active_peers(dump[k]))] : dump \in [keys -> rows]} :
              keys \in {wg_peers, {}}}

\* ConnectionMonitor.update_usage_stats(db) on a session of its own: one
\* UsageLog per peer of the dump with an active VPNConfig, then db.commit();
\* a query or a commit that raises ends in db.rollback().
update_usage_stats(active_peers, db_ok) ==
    /\ LET pending == PendingLogs(vpn_configs, active_peers, DOMAIN active_peers) IN
       /\ Len(usage_logs) + Len(pending) <= MaxLogs
       /\ usage_logs' = usage_logs \o (IF db_ok THEN pending ELSE Rollback(pending))
    /\ UNCHANGED <<managerVars, vpn_configs, results, routeVars, panel_call, now, sweep,
                   users, loops, wg_call, admin, main_tunnels>>

\* A request thread creates and destroys tunnels while the monitor thread
\* logs the usage.
NextUsage ==
    \/ \E s \in ServerIds, u \in Users : calls < MaxCalls /\ CreateTunnelCall(1, s, u)
    \/ CreateValidate(1)
    \/ CreateAddPeer(1)
    \/ CreateCommit(1)
    \/ CreateVerify(1)
    \/ \E c \in 1 .. MaxCalls : calls < MaxCalls /\ DestroyTunnelCall(1, c)
    \/ DestroyRemovePeer(1)
    \/ DestroyCommit(1)
    \/ DestroyVerify(1)
    \/ \E active_peers \in ActivePeers, db_ok \in BOOLEAN :
         update_usage_stats(active_peers, db_ok)

SpecUsage == InitMonitor /\ [][NextUsage]_vars

\* ------------------------------------------------------------ properties
\* The step is thread t returning from its call.
Returns(t) == th[t].pc \notin {"idle", "done"} /\ th'[t].pc = "done"

\* The step is thread t's create call committing its VPNConfig row.
Commits(t) ==
    /\ th[t].pc = "c_commit"
    /\ Len(vpn_configs') = Len(vpn_configs) + 1
    /\ vpn_configs'[Len(vpn_configs')].public_key = th[t].public_key

\* The ip_allocations rows of the address a VPNConfig row holds.
AllocationOfConfig(cfg) ==
    {a \in DOMAIN ip_allocations :
        /\ ip_allocations[a].server_id = cfg.server_id
        /\ ip_allocations[a].ip_address = cfg.allocated_ip}

\* C1: every (user, server) pair has at most one VPNConfig row with is_active
\* true, whatever tunnel create, destroy, status and cleanup requests and
\* external deletions of panel clients have happened.
C1_OneActivePerUserServer ==
    \A c1, c2 \in DOMAIN vpn_configs :
        (/\ vpn_configs[c1].is_active /\ vpn_configs[c2].is_active
         /\ vpn_configs[c1].user_id = vpn_configs[c2].user_id
         /\ vpn_configs[c1].server_id = vpn_configs[c2].server_id)
        => c1 = c2

\* C2: of two Create calls for the same (user, server) that overlap in time only
\* one persists a tunnel: a call never commits a VPNConfig row when a call for
\* the same pair that started after it (a later key pair) has already committed
\* an active one, so one address at most is consumed for the pair.
C2_OverlappingCreateOnce ==
    [][\A t \in Threads :
         Commits(t) =>
           ~\E c \in DOMAIN vpn_configs :
               /\ vpn_configs[c].user_id = th[t].user_id
               /\ vpn_configs[c].server_id = th[t].server_id
               /\ vpn_configs[c].is_active
               /\ vpn_configs[c].public_key > th[t].public_key]_vars

\* C3: two active VPNConfig rows of one server that belong to different users
\* never hold the same allocated_ip.
C3_NoSharedAddress ==
    \A c1, c2 \in DOMAIN vpn_configs :
        (/\ c1 # c2
         /\ vpn_configs[c1].is_active /\ vpn_configs[c2].is_active
         /\ vpn_configs[c1].server_id = vpn_configs[c2].server_id
         /\ vpn_configs[c1].user_id # vpn_configs[c2].user_id)
        => vpn_configs[c1].allocated_ip # vpn_configs[c2].allocated_ip

\* C4: when the handler that ran last is a tunnel create that answered success,
\* exactly one active VPNConfig row of its user on server 1 exists.
C4_SuccessHasOneRow ==
    (response.op = "create" /\ response.status = "success")
    => Cardinality({c \in ActiveConfigsOfUser(vpn_configs, response.user_id) :
                       vpn_configs[c].server_id = 1}) = 1

\* C5: when create_tunnel_with_validation returns success, the allocation it
\* selected is marked taken and its allocated_to is the id of the new row.
C5_AllocationBackReference ==
    [][\A t \in Threads :
         (Returns(t) /\ th[t].op = "create" /\ th'[t].ret.ok) =>
           LET a == Val(th[t].available_ip) IN
           /\ ip_allocations'[a].is_allocated
           /\ ip_allocations'[a].allocated_to = th'[t].ret.vpn_config]_vars

\* C6: when destroy_tunnel_with_validation returns success, the VPNConfig is
\* inactive and the address it held is free again (is_allocated false,
\* allocated_to cleared).
C6_DestroyReleasesAddress ==
    [][\A t \in Threads :
         (Returns(t) /\ th[t].op = "destroy" /\ th'[t].ret.ok) =>
           LET c == Val(th[t].vpn_config) IN
           /\ ~vpn_configs'[c].is_active
           /\ \A a \in AllocationOfConfig(vpn_configs[c]) :
                /\ ~ip_allocations'[a].is_allocated
                /\ ip_allocations'[a].allocated_to = None]_vars

\* C7: a create call that reaches the address query when every allocation of
\* its server is taken returns failure in that step, and the step adds no
\* VPNConfig row, registers no peer and changes no IPAllocation row.
C7_NoCapacityNoChange ==
    [][\A t \in Threads :
         (/\ th[t].pc = "c_validate"
          /\ th'[t] # th[t]
          /\ \A a \in DOMAIN ip_allocations :
                ip_allocations[a].server_id = th[t].server_id
                   => ip_allocations[a].is_allocated)
         => /\ th'[t].pc = "done"
            /\ ~th'[t].ret.ok
            /\ th'[t].ret.msg \in {"no_ip", "unhealthy"}
            /\ vpn_configs' = vpn_configs
            /\ ip_allocations' = ip_allocations
            /\ wg_peers' = wg_peers
            /\ panel_peers' = panel_peers]_vars

\* A create call has returned the no-address failure.
C7_Witness ==
    \E t \in Threads : th[t].pc = "done" /\ th[t].ret.msg = "no_ip"

\* C9: when the add-peer call of a create reports failure, the create returns
\* failure in that step and the step leaves vpn_configs and ip_allocations as
\* they were: no row is persisted and the selected address is not taken by
\* this call.
C9_PeerFailureNoRow ==
    [][\A t \in Threads :
         (/\ th[t].pc = "c_add_peer"
          /\ th'[t].pc # "c_add_peer"
          /\ ~th'[t].success)
         => /\ th'[t].pc = "done"
            /\ ~th'[t].ret.ok
            /\ th'[t].ret.vpn_config = None
            /\ vpn_configs' = vpn_configs
            /\ ip_allocations' = ip_allocations]_vars

\* A create call has returned the add-peer failure, its address still free.
C9_Witness ==
    \E t \in Threads :
        /\ th[t].pc = "done" /\ th[t].ret.msg = "peer_failed"
        /\ vpn_configs = <<>>
        /\ \A a \in DOMAIN ip_allocations : ~ip_allocations[a].is_allocated

\* C10: when the verification of a create on a server without panel_url fails
\* on every attempt, the create returns failure and afterward no active
\* VPNConfig row of the call exists and the selected allocation is not taken.
C10_VerifyFailureRollsBack ==
    [][\A t \in Threads :
         (Returns(t) /\ th[t].op = "create" /\ th[t].pc = "c_verify" /\ ~th'[t].ret.ok) =>
           /\ ~\E c \in DOMAIN vpn_configs' :
                 /\ vpn_configs'[c].public_key = th[t].public_key
                 /\ vpn_configs'[c].is_active
           /\ ~ip_allocations'[Val(th[t].available_ip)].is_allocated]_vars

\* The address of the row a successful create returned.
AddressOf(r) == vpn_configs[Val(r.vpn_config)].allocated_ip

\* C8: of creates made one after the other for distinct users on a pool of N
\* addresses (253 for a /24), the successful ones hold pairwise distinct
\* addresses, none of the first N fails for lack of an address (only the health
\* probe, the add-peer call, the database or the verification can fail it), and
\* the (N+1)th, made after N successes, fails, with the no-address error unless
\* the health probe has aborted it before the query.
C8_SequentialCreates ==
    LET N == PoolSize(1) IN
    /\ Len(populate_ip_pool(<<>>, 1, VPN_SUBNET)) = 253
    /\ N = Pow2(servers[1].subnet) - 3
    /\ \A i, j \in DOMAIN results :
          (i # j /\ results[i].ok /\ results[j].ok)
             => AddressOf(results[i]) # AddressOf(results[j])
    /\ \A k \in DOMAIN results :
          /\ k <= N => results[k].msg # "no_ip"
          /\ k = N + 1 => /\ ~results[k].ok
                          /\ results[k].msg \in {"no_ip", "unhealthy"}

\* N creates have succeeded on a pool of N > 1 addresses and the next one has
\* failed for lack of an address.
C8_Witness ==
    LET N == PoolSize(1) IN
    /\ N > 1
    /\ Len(results) = N + 1
    /\ \A i \in 1 .. N : results[i].ok
    /\ results[N + 1].msg = "no_ip"

\* Some VPNConfig row of the pair (user_id, server_id) is active.
HasActiveConfig(user_id, server_id) ==
    \E c \in DOMAIN vpn_configs :
        /\ vpn_configs[c].user_id = user_id
        /\ vpn_configs[c].server_id = server_id
        /\ vpn_configs[c].is_active

\* C11: a create call that begins its checks while an active VPNConfig of its
\* (user, server) exists is rejected in that step: it returns failure, having
\* selected no address and registered no peer.
C11_ExistingTunnelRejected ==
    [][\A t \in Threads :
         (/\ th[t].pc = "c_validate"
          /\ th'[t] # th[t]
          /\ HasActiveConfig(th[t].user_id, th[t].server_id))
         => /\ th'[t].pc = "done"
            /\ ~th'[t].ret.ok]_vars

\* C12: a create call that begins its checks on a server whose is_active flag
\* is false is rejected in that step: it returns failure, having selected no
\* address and registered no peer, so that it persists nothing.
C12_InactiveServerRejected ==
    [][\A t \in Threads :
         (/\ th[t].pc = "c_validate"
          /\ th'[t] # th[t]
          /\ ~servers[th[t].server_id].is_active)
         => /\ th'[t].pc = "done"
            /\ ~th'[t].ret.ok]_vars

\* C13: when the health probe of a create reports unhealthy (the step from the
\* checks is one no healthy probe could have taken on a directly-managed
\* server, or the call returns the unhealthy failure), a server without
\* panel_url makes the call return failure with no table and no peer changed,
\* and a server with panel_url never returns the unhealthy failure: the call
\* goes on to the address query, and to peer registration when an address is
\* free.
C13_HealthProbeGate ==
    [][\A t \in Threads :
         (th[t].pc = "c_validate" /\ th'[t] # th[t]) =>
           LET free == {a \in DOMAIN ip_allocations :
                           /\ ip_allocations[a].server_id = th[t].server_id
                           /\ ~ip_allocations[a].is_allocated} IN
           /\ (th'[t].pc = "done" /\ th'[t].ret.msg = "unhealthy")
                 => /\ servers[th[t].server_id].panel_url = None
                    /\ ~th'[t].ret.ok
                    /\ UNCHANGED <<vpn_configs, ip_allocations, wg_peers, panel_peers>>
           /\ (servers[th[t].server_id].panel_url # None /\ free # {})
                 => /\ th'[t].pc = "c_add_peer"
                    /\ th'[t].available_ip # None
                    /\ Val(th'[t].available_ip) \in free
           /\ (servers[th[t].server_id].panel_url # None /\ free = {})
                 => th'[t].ret.msg = "no_ip"]_vars

\* A create on a directly-managed server has returned the unhealthy failure
\* while an address was free and nothing had been persisted.
C13_Witness ==
    \E t \in Threads :
        /\ th[t].pc = "done" /\ th[t].ret.msg = "unhealthy"
        /\ servers[th[t].server_id].panel_url = None
        /\ vpn_configs = <<>>
        /\ \E a \in DOMAIN ip_allocations : ~ip_allocations[a].is_allocated

\* C14: Destroy applied again changes nothing: when the handler that ran last
\* is a tunnel destroy that answered success and no process holds an index
\* entry for its user, a further successful destroy of that user changes no
\* VPNConfig row.
C14_DestroyIdempotent ==
    [][(/\ response.op = "destroy"
        /\ response.status = "success"
        /\ response' = response
        /\ \A p \in Procs : active_tunnels[p][response.user_id] = None)
       => vpn_configs' = vpn_configs]_vars

\* The statuses a recorded call received, as a set.
Answered(call) == {call.answers[i] : i \in DOMAIN call.answers}

\* C15: whenever the delete_client call of a destroy is answered 404 (on the
\* first attempt or on the retry after re-authentication), the destroy reports
\* success and the user's entry is gone from the in-memory index.
C15_AbsentPeerIsSuccess ==
    [][(panel_call' # panel_call /\ panel_call'.op = "delete_client"
        /\ 404 \in Answered(panel_call'))
       => (/\ response'.op = "destroy"
           /\ response'.status = "success"
           /\ active_tunnels'[panel_call'.proc][panel_call'.user_id] = None)]_vars

\* C16: when the peer removal of a destroy fails, the deactivation is committed
\* all the same: as the call returns, the VPNConfig row is inactive and no
\* allocation is held for it.
C16_RemovalFailureStillDeactivates ==
    [][\A t \in Threads :
         (th[t].pc = "d_remove_peer" /\ th'[t].pc = "done")
         => (/\ ~vpn_configs'[Val(th[t].vpn_config)].is_active
             /\ \A a \in DOMAIN ip_allocations' :
                  ip_allocations'[a].is_allocated
                  => ip_allocations'[a].ip_address
                         # vpn_configs'[Val(th[t].vpn_config)].allocated_ip)]_vars

\* The index entry of user u in process p names a client the panel no longer
\* holds.
StaleEntry(p, u) ==
    active_tunnels[p][u] # None /\ Val(active_tunnels[p][u]) \notin panel_clients

\* C17: every status read answers present only if the indexed client id is in
\* the panel's current client list; a read for a user whose client was deleted
\* on the panel, if its list call succeeds, answers absent and leaves no index
\* entry for the user.
C17_StatusReconciles ==
    [][\A p \in Procs, u \in Users :
         GetTunnelStatus(p, u)
         => (/\ response'.has_tunnel
                => (active_tunnels[p][u] # None
                    /\ Val(active_tunnels[p][u]) \in panel_clients)
             /\ (StaleEntry(p, u) /\ response'.message # "Error checking tunnel status")
                => (~response'.has_tunnel /\ active_tunnels'[p][u] = None)
             /\ ~response'.has_tunnel /\ response'.message # "Error checking tunnel status"
                => active_tunnels'[p][u] = None)]_vars

\* A status read has found the client of a created tunnel gone from the panel
\* and dropped the index entry.
C17_Witness ==
    /\ response.op = "status"
    /\ response.message = "Tunnel was removed externally"
    /\ ~response.has_tunnel
    /\ response.user_id \in Users
    /\ ActiveConfigsOfUser(vpn_configs, response.user_id) # {}
    /\ \A p \in Procs : active_tunnels[p][response.user_id] = None

\* C18: once a cleanup sweep that found the panel client of a tunnel gone has
\* completed, the user of that tunnel has no active VPNConfig row left.
C18_SweepDeactivatesRow ==
    [][\A p \in Procs :
         (CleanupInactiveTunnels(p) /\ response'.count > 0)
         => \A u \in StaleUsers(active_tunnels[p], panel_clients) :
              ActiveConfigsOfUser(vpn_configs', u) = {}]_vars

\* C19: cleanup_disconnected_peers never chooses, and the monitor thread never
\* deactivates, a tunnel whose age (now minus created_at) is at most the
\* disconnection threshold, whatever the dump says of its peer.
C19_YoungTunnelSpared ==
    [][/\ \A c \in sweep'.chosen :
            sweep' # sweep => now - vpn_configs[c].created_at > disconnection_threshold
       /\ \A c \in DOMAIN vpn_configs :
            (vpn_configs[c].is_active /\ ~vpn_configs'[c].is_active)
            => (/\ c \in sweep.chosen
                /\ now - vpn_configs[c].created_at > disconnection_threshold)]_vars

\* The monitor thread has destroyed a tunnel a sweep chose, while a tunnel no
\* older than the threshold is left active.
C19_Witness ==
    /\ \E c \in sweep.chosen : ~vpn_configs[c].is_active
    /\ \E d \in DOMAIN vpn_configs :
         /\ vpn_configs[d].is_active
         /\ now - vpn_configs[d].created_at <= disconnection_threshold
         /\ d \notin sweep.chosen

\* C20: a panel client operation whose request is answered 401 authenticates
\* again once and, if that succeeds, repeats the request once before it
\* returns; no operation sends its request more than twice.
C20_OneReauthOneRetry ==
    /\ Len(panel_call.answers) <= 2
    /\ (panel_call.answers # <<>> /\ panel_call.answers[1] = 401)
       => (/\ panel_call.reauth # "none"
           /\ panel_call.reauth = "ok" => Len(panel_call.answers) = 2)

\* The last iteration of thread k of monitor m raised an error.
Raised(m, k) == loops[m].threads[k].pc \in {"failed", "dead"}

\* C21: an iteration of either monitor loop that raises an error does not end
\* the loop: unless monitoring_active is cleared, the thread comes back to the
\* head of its loop, and a thread at the head of its loop runs its iteration.
C21_LoopSurvivesError ==
    \A m \in Monitors, k \in 1 .. MaxLoopThreads :
        /\ Raised(m, k)
              ~> (loops[m].threads[k].pc = "ready" \/ ~loops[m].monitoring_active)
        /\ (loops[m].threads[k].pc = "ready" /\ loops[m].monitoring_active)
              ~> (loops[m].threads[k].pc \in {"sleep", "failed"}
                  \/ ~loops[m].monitoring_active)

\* A thread of each monitor sleeps after an iteration that raised, with
\* monitoring_active still set; the one of the connection monitor has
\* completed iterations before.
C21_Witness ==
    /\ \A m \in Monitors : loops[m].monitoring_active
    /\ \E k \in 1 .. MaxLoopThreads : Raised("server", k)
    /\ \E k \in 1 .. MaxLoopThreads :
         Raised("connection", k) /\ loops["connection"].threads[k].cycle_count > 0

\* C22: when revoke_user_access(u) has returned, user u is inactive and has no
\* VPNConfig row with is_active true.
C22_RevokeLeavesNoTunnel ==
    [][\A u \in Users :
         (revoke_user_access(u) /\ response'.status = "success")
         => (/\ ~users'[u].is_active
             /\ ActiveConfigsOfUser(vpn_configs', u) = {})]_vars

\* C23: delete_server on a server with an active VPNConfig answers
\* ResourceConflict and leaves the server as it is; on a server with none it
\* changes nothing but the server's is_active flag, which it sets to false;
\* in both cases no Server, VPNConfig or IPAllocation row is removed.
C23_DeleteServerIsSoft ==
    [][\A s \in ServerIds :
         DeleteServer(s)
         => (/\ (\E c \in DOMAIN vpn_configs :
                    vpn_configs[c].server_id = s /\ vpn_configs[c].is_active)
                => (response'.message = "ResourceConflict" /\ servers' = servers)
             /\ response'.status = "success"
                => servers' = [servers EXCEPT ![s].is_active = FALSE]
             /\ DOMAIN servers' = DOMAIN servers
             /\ vpn_configs' = vpn_configs
             /\ ip_allocations' = ip_allocations)]_vars

\* delete_server has just refused a server that holds an active tunnel.
C23_Witness ==
    /\ response.op = "delete_server"
    /\ response.message = "ResourceConflict"
    /\ servers[1].is_active
    /\ \E c \in DOMAIN vpn_configs : vpn_configs[c].server_id = 1 /\ vpn_configs[c].is_active

\* The ip_allocations rows of server s with address ip.
PoolRows(s, ip) ==
    {a \in DOMAIN ip_allocations :
        ip_allocations[a].server_id = s /\ ip_allocations[a].ip_address = ip}

Populated(s) == \E a \in DOMAIN ip_allocations : ip_allocations[a].server_id = s

\* C25: the pool of a server whose subnet has a network and a broadcast
\* address of its own (at least two host bits) holds exactly one row, a free
\* one, for every address strictly between the two except the gateway, and no
\* row for the gateway, the network or the broadcast address; the pool of a
\* /31 or /32 subnet holds one free row for every address of the subnet except
\* network address + 1. No pool holds an address twice, and every row belongs
\* to a server.
C25_PoolOneRowPerHost ==
    /\ \A a \in DOMAIN ip_allocations :
         LET row == ip_allocations[a] IN
         /\ row.server_id \in DOMAIN servers
         /\ row.ip_address \in 0 .. (Pow2(servers[row.server_id].subnet) - 1)
         /\ ~row.is_allocated
    /\ \A s \in DOMAIN servers :
         Populated(s) =>
           LET bits == servers[s].subnet
               last == Pow2(bits) - 1
           IN  \A ip \in 0 .. last :
                 Cardinality(PoolRows(s, ip)) =
                   IF ip # 1 /\ (bits >= 2 => (0 < ip /\ ip < last)) THEN 1 ELSE 0

\* A server made from a panel with a /31 subnet and a server made by
\* create_server both have their pools.
C25_Witness ==
    \E s1 \in DOMAIN servers, s2 \in DOMAIN servers :
        /\ s1 # 1 /\ s2 # 1
        /\ HasPanel(s1) /\ servers[s1].subnet = 1 /\ Populated(s1)
        /\ ~HasPanel(s2) /\ Populated(s2)

\* C25 as stated: every populated pool holds one free row for every host
\* address except the gateway and none for the gateway, the network address
\* or the broadcast address.
C25_NoNetworkOrBroadcastRow ==
    \A s \in DOMAIN servers :
        Populated(s) =>
          LET last == Pow2(servers[s].subnet) - 1 IN
          /\ PoolRows(s, 0) = {}
          /\ PoolRows(s, 1) = {}
          /\ PoolRows(s, last) = {}
          /\ \A ip \in 2 .. (last - 1) : Cardinality(PoolRows(s, ip)) = 1

\* C27: a loop thread of a monitor runs an iteration only while no other
\* thread of that monitor is in the sleep of its loop, whatever the order of
\* start_monitoring and stop_monitoring calls.
C27_OneLoopThread ==
    [][\A m \in Monitors, k \in 1 .. MaxLoopThreads :
         (/\ loops[m].threads[k].pc = "ready"
          /\ loops'[m].threads[k].pc \in {"sleep", "failed"})
            => \A j \in 1 .. MaxLoopThreads :
                 j # k => loops[m].threads[j].pc \notin {"sleep", "failed"}]_vars

\* C29: a sweep passes an active row to _cleanup_peer exactly when its peer is
\* not connected and either the peer has a handshake older than the
\* disconnection threshold and the tunnel is older than the threshold, or the
\* peer has no handshake on record (or is missing from the dump) and the
\* tunnel is older than twice the threshold.
C29_SweepChoosesExactly ==
    [][CleanupWithDump =>
         \A c \in ActiveConfigs(vpn_configs) :
           LET peer == sweep'.peers[c]
               age == now - vpn_configs[c].created_at
               has_handshake == peer.present /\ peer.last_handshake # None
               since == now - Val(peer.last_handshake)
           IN  c \in sweep'.chosen <=>
                 \/ /\ has_handshake
                    /\ ~(since < disconnection_threshold)
                    /\ since > disconnection_threshold
                    /\ age > disconnection_threshold
                 \/ /\ ~has_handshake
                    /\ age > 2 * disconnection_threshold]_vars

\* One sweep has chosen a row whose peer has an old handshake and a row
\* whose peer has none, and has spared neither.
C29_Witness ==
    /\ "peers" \in DOMAIN sweep
    /\ \E c1 \in sweep.chosen, c2 \in sweep.chosen :
         /\ sweep.peers[c1].present /\ sweep.peers[c1].last_handshake # None
         /\ sweep.peers[c2].last_handshake = None

\* C30: a thread of the connection-monitor loop invokes the cleanup in its
\* first iteration, and afterwards in an iteration exactly when it has run
\* four iterations without a cleanup since its last one, whether or not
\* iterations have failed.
C30_SweepEveryFifthIteration ==
    [][\A k \in 1 .. MaxLoopThreads :
         LET before == loops["connection"].threads[k]
             after == loops'["connection"].threads[k]
             sweeps == after.since_sweep = 0
         IN  (before.pc = "ready" /\ after.pc \in {"sleep", "failed"})
               => /\ before.iterations = 0 => sweeps
                  /\ before.iterations > 0 => (sweeps <=> before.since_sweep = 4)]_vars

\* C31: for a peer row of the dump, get_active_peers and get_peer_stats both
\* read the last handshake from the 5th field, the bytes received from the
\* 6th and the bytes sent from the 7th, and so report the same values.
C31_DumpParsersAgree ==
    wg_call.fn = "dump" =>
        LET parts == wg_call.parts
            handshake == IF parts[5] = <<"0">> THEN None ELSE Some(parts[5])
        IN  /\ wg_call.peer_status # None /\ wg_call.peer_stats # None
            /\ Val(wg_call.peer_stats).last_handshake = handshake
            /\ Val(wg_call.peer_status).last_handshake =
                 (IF handshake = None THEN None ELSE StrToInt(Val(handshake)))
            /\ Val(wg_call.peer_stats).bytes_received = Val(StrToInt(parts[6]))
            /\ Val(wg_call.peer_status).bytes_received = Val(StrToInt(parts[6]))
            /\ Val(wg_call.peer_stats).bytes_sent = Val(StrToInt(parts[7]))
            /\ Val(wg_call.peer_status).bytes_sent = Val(StrToInt(parts[7]))

\* C32: on a server without panel_url, when the peer removal reported success
\* and verify_peer_removed fails on all its attempts (the key is still listed),
\* the destroy returns success, the VPNConfig row is inactive and the address
\* it held is released.
C32_VerifyFailureKeepsDestroy ==
    [][\A t \in Threads :
         (/\ th[t].pc = "d_verify" /\ th'[t].pc = "done"
          /\ th[t].attempt + 1 >= max_attempts
          /\ th[t].public_key \in wg_peers)
         => LET c == Val(th[t].vpn_config) IN
            /\ th'[t].ret.ok
            /\ ~vpn_configs'[c].is_active
            /\ \A a \in AllocationOfConfig(vpn_configs[c]) :
                 /\ ~ip_allocations'[a].is_allocated
                 /\ ip_allocations'[a].allocated_to = None]_vars

\* The part of C32 the code keeps: the failed verification returns success,
\* changes no row, and the VPNConfig stays inactive.
C32_VerifyFailureUndoesNothing ==
    [][\A t \in Threads :
         (/\ th[t].pc = "d_verify" /\ th'[t].pc = "done"
          /\ th[t].attempt + 1 >= max_attempts
          /\ th[t].public_key \in wg_peers)
         => (/\ th'[t].ret.ok
             /\ ~vpn_configs'[Val(th[t].vpn_config)].is_active
             /\ UNCHANGED dbVars)]_vars

\* C33: update_usage_stats only appends to usage_logs: it changes no VPNConfig,
\* IPAllocation or Server row and no entry of the in-memory index; when it
\* commits it appends one row per peer of the dump whose public key is that of
\* an active VPNConfig, with that peer's counters; when it fails it appends
\* no row.
C33_UsageStatsOnlyAppends ==
    [][\A active_peers \in ActivePeers, db_ok \in BOOLEAN :
         update_usage_stats(active_peers, db_ok) =>
           LET old == Len(usage_logs)
               logged == {k \in DOMAIN active_peers :
                             ActiveConfigsOfKey(vpn_configs, k) # {}} IN
           /\ UNCHANGED <<servers, vpn_configs, ip_allocations, active_tunnels>>
           /\ SubSeq(usage_logs', 1, old) = usage_logs
           /\ IF db_ok
              THEN /\ Len(usage_logs') = old + Cardinality(logged)
                   /\ \A k \in logged : \E i \in (old + 1) .. Len(usage_logs') :
                        /\ usage_logs'[i].vpn_config_id \in ActiveConfigsOfKey(vpn_configs, k)
                        /\ usage_logs'[i].user_id
                               = vpn_configs[usage_logs'[i].vpn_config_id].user_id
                        /\ usage_logs'[i].bytes_sent = active_peers[k].bytes_sent
                        /\ usage_logs'[i].bytes_received = active_peers[k].bytes_received
              ELSE usage_logs' = usage_logs]_vars

\* Two calls have each logged the same live tunnel, still active.
C33_Witness ==
    /\ Len(usage_logs) = 2
    /\ usage_logs[1].vpn_config_id = usage_logs[2].vpn_config_id
    /\ vpn_configs[usage_logs[1].vpn_config_id].is_active
    /\ usage_logs[2].bytes_sent > usage_logs[1].bytes_sent

\* C34: between calls of create_tunnel_with_validation and
\* destroy_tunnel_with_validation, the addresses of a server with
\* is_allocated true are exactly the allocated_ip of its active VPNConfig
\* rows.
C34_AllocatedIffActive ==
    (\A t \in Threads : th[t].pc \in {"idle", "done"})
    => \A s \in DOMAIN servers :
         {ip_allocations[a].ip_address :
             a \in {b \in DOMAIN ip_allocations :
                      ip_allocations[b].server_id = s /\ ip_allocations[b].is_allocated}}
         = {vpn_configs[c].allocated_ip : c \in ActiveConfigsOfServer(vpn_configs, s)}

\* C35: a create request of user u handled by a process whose index names a
\* client the panel still holds creates no new panel client, whether or not
\* the list_clients calls of the check succeed.
C35_NoSecondClient ==
    [][\A p \in Procs, u \in Users :
         (/\ CreateDynamicTunnel(p, u)
          /\ active_tunnels[p][u] # None
          /\ Val(active_tunnels[p][u]) \in panel_clients)
         => (next_client' = next_client /\ panel_clients' = panel_clients)]_vars

\* C36: when create_user_tunnel fails past its check for an existing tunnel,
\* the panel holds no client it did not hold before the call and the index of
\* the process has no entry for the user.
C36_FailedCreateLeavesNothing ==
    [][\A p \in Procs, u \in Users :
         (/\ CreateDynamicTunnel(p, u)
          /\ response'.status = "error"
          /\ response'.message # "User already has an active tunnel")
         => (/\ panel_clients' \subseteq panel_clients
             /\ active_tunnels'[p][u] = None)]_vars

\* C37: a sweep whose peer dump could not be obtained (the wg command failed,
\* timed out or raised) passes no row to _cleanup_peer.
C37_FailedDumpDestroysNothing ==
    (sweep # NoSweep /\ ~sweep.dump_ok) => sweep.chosen = {}

\* C38: when DELETE /tunnel/destroy answers success for user u, the index of
\* the process that handled it has no entry for u and no VPNConfig row of u
\* is active.
C38_DestroyLeavesNothing ==
    [][\A p \in Procs, u \in Users :
         (DestroyDynamicTunnel(p, u) /\ response'.status = "success")
         => (/\ active_tunnels'[p][u] = None
             /\ ActiveConfigsOfUser(vpn_configs', u) = {})]_vars

\* C39: the active-tunnel count that /health and /metrics report in a process
\* is the number of entries of the index the tunnel routes of that process
\* update.
C39_HealthCountsRouteIndex ==
    [][\A p \in Procs :
         (health_check(p) \/ get_metrics(p))
         => response'.count = get_active_tunnel_count(active_tunnels[p])]_vars

====
